---- MODULE Spec2Model ----
(***************************************************************************)
(* Statement lowering of gen/statements.cpp (ToIRVisitor): a tree of       *)
(* statements is turned into basic blocks joined by explicit branches.     *)
(*                                                                         *)
(* The statement tree is produced on the fly: every visit(...) handler is  *)
(* an action, and a handler that descends into a sub-statement (accept) is *)
(* cut at the descent, its local variables kept in a frame of `frames`,    *)
(* the visitor's call stack.  The statements lowered while a frame is on   *)
(* top are the statements of that body.                                    *)
(***************************************************************************)
EXTENDS Integers, Sequences, FiniteSets, TLC

\* ------------------------------------------------------------------ bounds
\* statements lowered in one function, per specification
MaxReturnStmts == 4
MaxLoopStmts == 3
\* open (nested) statements
MaxDepth == 3
\* ScopeStatements wrapped around a labelled loop
MaxWraps == 1
\* catch clauses of one try/catch
MaxCatches == 2
MaxCatchStmts == 3
\* case labels of one switch
MaxCases == 3
MaxSwitchStmts == 4
MaxGotoStmts == 5
MaxStringStmts == 4
MaxStrategyStmts == 3
MaxLinearStmts == 4
MaxLabelStmts == 4
MaxEHStmts == 3
MaxTwiceCases == 2
MaxMiscStmts == 4
MaxForeachStmts == 3
MaxTargetStmts == 3
MaxGotoCaseStmts == 5
MaxForStmts == 3
MaxDoStmts == 4
MaxNestedStmts == 5
\* the width of size_t and of the keys of the foreach ranges
SizeBits == 2
\* child statements of one unrolled loop
MaxUnrolled == 4
MaxUnrolledStmts == 3
MaxStmts == 3
\* labels of one function
MaxLabels == 1

VARIABLES
  blocks,          \* the function's basic blocks in creation order: [name, instrs]
  scopebb,         \* irs->scopebb(), the block instructions are appended to
  allocas,         \* stack slots created at the function's alloca point
  cleanupScopes,   \* ScopeStack: pending cleanups, innermost last
  catchScopes,     \* ScopeStack: active catches, probed from the last one
  switches,        \* the scratch fields of the switch statements of the tree
  genInstrProf,    \* global.params.genInstrProf
  useMSVCEH,       \* useMSVCEH(): exceptions are lowered to funclets
  stringTables,    \* the module's ".string_switch_table_data" constants
  labelTargets,    \* ScopeStack: the labels defined so far
  gotoJumps,       \* ScopeStack: the gotos whose label is not defined yet
  continueTargets, \* ScopeStack: continue targets of the open loops
  breakTargets,    \* ScopeStack: break targets of the open loops and switches
  retBlock,        \* f->retBlock, 0 when null
  retValSlot,      \* f->retValSlot, an index of allocas, 0 when null
  hasRetVal,       \* the function returns a value in a register (returnValue != null)
  frames,          \* the visitor's call stack: handlers suspended in accept()
  nstmts,          \* statements visited so far
  fatal,           \* an error was reported and lowering aborted
  ast,             \* the tree handed to Statement_toIR, when it is lowered twice
  pass,            \* the number of the call of Statement_toIR under way
  first,           \* the blocks the first call left
  exePath,         \* exe_path.cpp's exePath, a sequence of path components
  exeCall,         \* the function of exe_path called last
  exeResult,       \* what that call returned
  exeFailed        \* an assertion of exe_path failed and the process aborted

retVars == <<allocas, retBlock, retValSlot, hasRetVal>>

targetVars == <<continueTargets, breakTargets>>

\* the tree lowered and what an earlier lowering of it left
passVars == <<ast, pass, first>>

\* what no handler changes: the configuration the function is lowered with,
\* the tree
\* the state of the executable-path module, which no statement touches
exeVars == <<exePath, exeCall, exeResult, exeFailed>>

configVars == <<genInstrProf, useMSVCEH, passVars, exeVars>>

switchVars == <<switches, configVars, stringTables>>
labelVars == <<labelTargets, gotoJumps>>
vars == <<blocks, scopebb, cleanupScopes, catchScopes, targetVars, retVars,
          switchVars, labelVars, frames, nstmts, fatal>>

\* ------------------------------------------------------- blocks, instructions
\* An instruction: op, a number n (a slot, a cleanup, a type), the successor
\* blocks succ and the constants keys (the case values of a switch).
Instr(op, n, succ, keys) == [op |-> op, n |-> n, succ |-> succ, keys |-> keys]

Terminators ==
  {"br", "condbr", "switch", "ret", "retvoid", "unreachable", "catchswitch",
   "catchret"}

Br(target) == Instr("br", 0, <<target>>, <<>>)

\* llvm::BasicBlock::Create(context, name, function)
Create(B, name) == Append(B, [name |-> name, instrs |-> <<>>])

\* a slip: lowering goes on in the block that has just been terminated
StartBlock_None(B, cur, name) == [blocks |-> B, scope |-> cur]

\* "llvm::BasicBlock *bb = llvm::BasicBlock::Create(...); irs->scope() =
\* IRScope(bb)": a new block is made the current one
StartBlock(B, cur, name) == [blocks |-> Create(B, name), scope |-> Len(B) + 1]

\* an instruction created with "insert at end of block bb"
Emit(B, bb, instr) == [B EXCEPT ![bb].instrs = Append(@, instr)]

\* bb->getTerminator(): the block ends in a terminator
GetTerminator(B, bb) ==
  /\ Len(B[bb].instrs) > 0
  /\ B[bb].instrs[Len(B[bb].instrs)].op \in Terminators

\* irs->scopereturned()
scopereturned(B, bb) == GetTerminator(B, bb)

\* ------------------------------------------------------------- ScopeStack
\* scopes->currentCleanupScope()
currentCleanupScope(scopes) == Len(scopes)

\* scopes->pushCleanup(beginBlock, endBlock)
pushCleanup(scopes, beginBlock, endBlock) ==
  Append(scopes, [beginBlock |-> beginBlock, endBlock |-> endBlock])

\* scopes->popCleanups(targetScope): drop entries, emit nothing
popCleanups(scopes, targetScope) == SubSeq(scopes, 1, targetScope)

\* scopes->runCleanups(targetScope, continueWith), emitting from block cur:
\* the cleanups above targetScope innermost first, each in a fresh block
\* chained to the previous one, then a branch to continueWith
RECURSIVE RunCleanupsFrom(_, _, _, _, _, _)
RunCleanupsFrom(B, cur, scopes, i, targetScope, continueWith) ==
  IF i <= targetScope
  THEN Emit(B, cur, Br(continueWith))
  ELSE LET fresh == Len(B) + 1
           B1 == Create(Emit(B, cur, Br(fresh)), "cleanup")
           B2 == Emit(B1, fresh, Instr("cleanup", scopes[i].beginBlock, <<>>, <<>>))
       IN RunCleanupsFrom(B2, fresh, scopes, i - 1, targetScope, continueWith)

runCleanups(B, cur, scopes, targetScope, continueWith) ==
  RunCleanupsFrom(B, cur, scopes, Len(scopes), targetScope, continueWith)

\* scopes->runAllCleanups(continueWith)
runAllCleanups(B, cur, scopes, continueWith) ==
  runCleanups(B, cur, scopes, 0, continueWith)

\* a jump target: the statement it belongs to, its block and the cleanup
\* depth recorded when it was pushed
JumpTarget(stmt, targetBlock, scopes) ==
  [targetStatement |-> stmt, targetBlock |-> targetBlock,
   cleanupScope |-> currentCleanupScope(scopes)]

\* scopes->pushLoopTarget / pushBreakTarget, on one of the two target stacks
pushTarget(targets, stmt, targetBlock, scopes) ==
  Append(targets, JumpTarget(stmt, targetBlock, scopes))

\* a slip: the target stays on the stack
popTarget_Kept(targets) == targets

\* scopes->popLoopTarget / popBreakTarget, on one of the two target stacks
popTarget(targets) == SubSeq(targets, 1, Len(targets) - 1)

\* the innermost target registered for statement stmt, 0 when there is none
FindTarget(targets, stmt) ==
  LET found == {i \in 1..Len(targets) : targets[i].targetStatement = stmt}
  IN IF found = {} THEN 0 ELSE CHOOSE i \in found : \A j \in found : j <= i

\* breakToClosest / continueWithClosest (i the top of the stack) and
\* breakToStatement / continueWithLoop (i the entry found): run the cleanups
\* down to the depth recorded with the target, then branch to its block
jumpToTarget(B, cur, scopes, targets, i) ==
  runCleanups(B, cur, scopes, targets[i].cleanupScope, targets[i].targetBlock)

\* ------------------------------------------------------------ the traversal
Top == frames[Len(frames)]

Push(f) == Append(frames, f)

Pop == SubSeq(frames, 1, Len(frames) - 1)

\* the statement being visited lies in the finally part of a try/finally:
\* the language lets no return, break, continue or goto leave it
InFinally == \E i \in 1..Len(frames) : frames[i].kind = "tryfinally.finalbody"

\* A statement reference: statement `core` wrapped in `scopes` ScopeStatements.
Ref(core, scopes) == [core |-> core, scopes |-> scopes]

\* ref->isScopeStatement()
isScopeStatement(ref) == ref.scopes > 0

\* "while (ScopeStatement *scope = s->isScopeStatement()) s = scope->statement"
RECURSIVE Unwrap(_)
Unwrap(ref) ==
  IF isScopeStatement(ref) THEN Unwrap(Ref(ref.core, ref.scopes - 1)) ELSE ref

\* the innermost open finally body (0 when there is none): no break, continue
\* or goto of a well-formed function leaves it
FinallyFloor ==
  LET open == {i \in 1..Len(frames) : frames[i].kind = "tryfinally.finalbody"}
  IN IF open = {} THEN 0 ELSE CHOOSE i \in open : \A j \in open : j <= i

LoopKinds ==
  {"while.body", "do.body", "for.body", "unrolled.stmt", "foreach.body",
   "foreachrange.body"}

\* the open loops a continue may name, and the open statements a break may
LoopFrames ==
  {i \in 1..Len(frames) : i > FinallyFloor /\ frames[i].kind \in LoopKinds}

BreakableFrames ==
  {i \in 1..Len(frames) :
     i > FinallyFloor /\ frames[i].kind \in LoopKinds \cup {"switch.body"}}

Innermost(S) == CHOOSE i \in S : \A j \in S : j <= i

\* no tree is fixed beforehand: the statements are met as they come
NoTree == [exps |-> <<>>, items |-> <<>>]

Init ==
  /\ blocks = <<[name |-> "entry", instrs |-> <<>>]>>
  /\ scopebb = 1
  /\ allocas = <<>>
  /\ cleanupScopes = <<>>
  /\ catchScopes = <<>>
  /\ switches = <<>>
  /\ genInstrProf \in BOOLEAN
  /\ useMSVCEH \in BOOLEAN
  /\ stringTables = <<>>
  /\ labelTargets = <<>>
  /\ gotoJumps = <<>>
  /\ retBlock = 0
  /\ retValSlot = 0
  /\ hasRetVal \in BOOLEAN
  /\ continueTargets = <<>>
  /\ breakTargets = <<>>
  /\ frames = <<>>
  /\ nstmts = 0
  /\ fatal = FALSE
  /\ ast = NoTree
  /\ pass = 1
  /\ first = <<>>
  /\ exePath = <<>>
  /\ exeCall = "none"
  /\ exeResult = <<>>
  /\ exeFailed = FALSE

\* ExpStatement: the expression is lowered into the current block
ExpStatement ==
  /\ ~fatal
  /\ blocks' = Emit(blocks, scopebb, Instr("exp", 0, <<>>, <<>>))
  /\ nstmts' = nstmts + 1
  /\ UNCHANGED <<scopebb, cleanupScopes, targetVars, retVars, frames, catchScopes, fatal,
                 switchVars, labelVars>>

\* ----------------------------------------------------------- ReturnStatement
useRetValSlot(scopes) == currentCleanupScope(scopes) # 0

\* a slip: the shared return block is never found to exist
sharedRetBlockExists_Never(rb) == FALSE

sharedRetBlockExists(rb) == rb # 0

\* a slip: only the innermost cleanup is run before the return block
ReturnRunCleanups_Innermost(B, cur, scopes, rb) ==
  runCleanups(B, cur, scopes, Len(scopes) - 1, rb)

\* "Now run the cleanups."
ReturnRunCleanups(B, cur, scopes, rb) == runAllCleanups(B, cur, scopes, rb)

\* a slip: the return instruction depends on the shared block alone
EmitsRet_SharedOnly(scopes, rb) == ~sharedRetBlockExists(rb)

\* "If we need to emit the actual return instruction, do so."
EmitsRet(scopes, rb) == ~useRetValSlot(scopes) \/ ~sharedRetBlockExists(rb)

ReturnStatement ==
  /\ ~fatal /\ ~InFinally
  /\ LET create == useRetValSlot(cleanupScopes) /\ ~sharedRetBlockExists(retBlock)
         B0 == IF hasRetVal
               THEN Emit(blocks, scopebb, Instr("exp", 0, <<>>, <<>>))
               ELSE blocks
         B1 == IF create THEN Create(B0, "return") ELSE B0
         rb == IF create THEN Len(B1) ELSE retBlock
         newSlot == create /\ hasRetVal
         slot == IF newSlot THEN Len(allocas) + 1 ELSE retValSlot
         B2 == IF useRetValSlot(cleanupScopes) /\ hasRetVal
               THEN Emit(B1, scopebb, Instr("store", slot, <<>>, <<>>))
               ELSE B1
         B3 == IF useRetValSlot(cleanupScopes)
               THEN ReturnRunCleanups(B2, scopebb, cleanupScopes, rb)
               ELSE B2
         cur == IF useRetValSlot(cleanupScopes) THEN rb ELSE scopebb
         B4 == IF EmitsRet(cleanupScopes, retBlock)
               THEN IF hasRetVal
                    THEN IF useRetValSlot(cleanupScopes)
                         THEN Emit(Emit(B3, cur, Instr("load", slot, <<>>, <<>>)),
                                   cur, Instr("ret", slot, <<>>, <<>>))
                         ELSE Emit(B3, cur, Instr("ret", 0, <<>>, <<>>))
                    ELSE Emit(B3, cur, Instr("retvoid", 0, <<>>, <<>>))
               ELSE B3
         after == StartBlock(B4, scopebb, "dummy.afterreturn")
     IN /\ blocks' = after.blocks
        /\ scopebb' = after.scope
        /\ retBlock' = rb
        /\ retValSlot' = slot
        /\ allocas' = IF newSlot THEN Append(allocas, "return.slot") ELSE allocas
  /\ nstmts' = nstmts + 1
  /\ UNCHANGED <<cleanupScopes, targetVars, hasRetVal, frames, fatal,
                 catchScopes,
                 switchVars, labelVars>>

\* ------------------------------------------------------ TryFinallyStatement
\* up to the descent into the finally body (or, with a part missing, into the
\* part that is present)
\* a slip: a try body without a finally body is taken for a full statement
LoweredInline_NoBody(body, finalbody) == ~body

\* "if (!stmt->_body || !stmt->finalbody)": just directly emit what is present
LoweredInline(body, finalbody) == ~body \/ ~finalbody

TryFinally(body, finalbody) ==
  /\ ~fatal /\ Len(frames) < MaxDepth
  /\ IF LoweredInline(body, finalbody)
     THEN /\ frames' = IF body \/ finalbody
                       THEN Push([kind |-> "tryfinally.inline"])
                       ELSE frames
          /\ UNCHANGED <<blocks, scopebb>>
     ELSE LET B1 == Create(blocks, "finally")
          IN /\ blocks' = B1
             /\ scopebb' = Len(B1)
             /\ frames' = Push([kind |-> "tryfinally.finalbody",
                                trybb |-> scopebb, finallybb |-> Len(B1)])
  /\ nstmts' = nstmts + 1
  /\ UNCHANGED <<cleanupScopes, targetVars, retVars, fatal,
                 catchScopes,
                 switchVars, labelVars>>

TryFinallyStatement == \E body, finalbody \in BOOLEAN : TryFinally(body, finalbody)

\* the part that is present has been lowered inline
TryFinallyInlineEnd ==
  /\ ~fatal /\ frames # <<>> /\ Top.kind = "tryfinally.inline"
  /\ frames' = Pop
  /\ UNCHANGED <<blocks, scopebb, cleanupScopes, targetVars, retVars, nstmts,
                 fatal,
                 catchScopes,
                 switchVars, labelVars>>

\* a slip: the finally block is lowered but not registered
RegisterFinally_Forgotten(scopes, finallybb, endBlock) == scopes

\* "irs->func()->scopes->pushCleanup(finallybb, irs->scopebb())"
RegisterFinally(scopes, finallybb, endBlock) ==
  pushCleanup(scopes, finallybb, endBlock)

\* from the end of the finally body to the descent into the try body
TryFinallyBody ==
  /\ ~fatal /\ frames # <<>> /\ Top.kind = "tryfinally.finalbody"
  /\ cleanupScopes' = RegisterFinally(cleanupScopes, Top.finallybb, scopebb)
  /\ scopebb' = Top.trybb
  /\ frames' = Append(Pop, [kind |-> "tryfinally.body",
                            finallybb |-> Top.finallybb,
                            cleanupBefore |-> currentCleanupScope(cleanupScopes)])
  /\ UNCHANGED <<blocks, targetVars, retVars, nstmts, fatal,
                 catchScopes,
                 switchVars, labelVars>>

\* "Create a block to branch to after successfully running the try block and
\* any cleanups."
TryFinallySuccess(B, cur, scopes, cleanupBefore) ==
  LET B1 == Create(B, "try.success")
  IN runCleanups(B1, cur, scopes, cleanupBefore, Len(B1))

\* a slip: the cleanup stays registered after the statement
PopFinally_Kept(scopes, cleanupBefore) == scopes

\* "irs->func()->scopes->popCleanups(cleanupBefore)"
PopFinally(scopes, cleanupBefore) == popCleanups(scopes, cleanupBefore)

\* after the try body
TryFinallyEnd ==
  /\ ~fatal /\ frames # <<>> /\ Top.kind = "tryfinally.body"
  /\ IF ~scopereturned(blocks, scopebb)
     THEN /\ blocks' = TryFinallySuccess(blocks, scopebb, cleanupScopes,
                                         Top.cleanupBefore)
          /\ scopebb' = Len(blocks) + 1
     ELSE UNCHANGED <<blocks, scopebb>>
  /\ cleanupScopes' = PopFinally(cleanupScopes, Top.cleanupBefore)
  /\ frames' = Pop
  /\ UNCHANGED <<targetVars, retVars, nstmts, fatal,
                 catchScopes,
                 switchVars, labelVars>>

\* ----------------------------------------------------------- WhileStatement
WhileStatement ==
  /\ ~fatal /\ Len(frames) < MaxDepth
  /\ LET whilebb == Len(blocks) + 1
         whilebodybb == Len(blocks) + 2
         endbb == Len(blocks) + 3
         stmt == Ref(nstmts + 1, 0)
         B1 == Create(Create(Create(blocks, "whilecond"), "whilebody"), "endwhile")
         B2 == Emit(B1, scopebb, Br(whilebb))
         B3 == Emit(B2, whilebb, Instr("exp", 0, <<>>, <<>>))
         B4 == Emit(B3, whilebb, Instr("condbr", 0, <<whilebodybb, endbb>>, <<>>))
     IN /\ blocks' = B4
        /\ scopebb' = whilebodybb
        /\ continueTargets' = pushTarget(continueTargets, stmt, whilebb, cleanupScopes)
        /\ breakTargets' = pushTarget(breakTargets, stmt, endbb, cleanupScopes)
        /\ frames' = Push([kind |-> "while.body", stmt |-> stmt,
                           whilebb |-> whilebb, endbb |-> endbb])
  /\ nstmts' = nstmts + 1
  /\ UNCHANGED <<cleanupScopes, retVars, fatal,
                 catchScopes,
                 switchVars, labelVars>>

\* after the body
WhileEnd ==
  /\ ~fatal /\ frames # <<>> /\ Top.kind = "while.body"
  /\ continueTargets' = popTarget(continueTargets)
  /\ breakTargets' = popTarget(breakTargets)
  /\ blocks' = IF ~scopereturned(blocks, scopebb)
               THEN Emit(blocks, scopebb, Br(Top.whilebb))
               ELSE blocks
  /\ scopebb' = Top.endbb
  /\ frames' = Pop
  /\ UNCHANGED <<cleanupScopes, retVars, nstmts, fatal,
                 catchScopes,
                 switchVars, labelVars>>

\* -------------------------------------------------------------- DoStatement
\* a slip: a continue goes back to the start of the body
DoContinueTarget_Body(dowhilebb, condbb) == dowhilebb

\* "pushLoopTarget(stmt, condbb, endbb)": the block a continue inside the
\* loop goes to
DoContinueTarget(dowhilebb, condbb) == condbb

DoStatement ==
  /\ ~fatal /\ Len(frames) < MaxDepth
  /\ LET dowhilebb == Len(blocks) + 1
         condbb == Len(blocks) + 2
         endbb == Len(blocks) + 3
         stmt == Ref(nstmts + 1, 0)
         B1 == Create(Create(Create(blocks, "dowhile"), "dowhilecond"), "enddowhile")
         B2 == Emit(B1, scopebb, Br(dowhilebb))
     IN /\ blocks' = B2
        /\ scopebb' = dowhilebb
        /\ continueTargets' =
             pushTarget(continueTargets, stmt,
                        DoContinueTarget(dowhilebb, condbb), cleanupScopes)
        /\ breakTargets' = pushTarget(breakTargets, stmt, endbb, cleanupScopes)
        /\ frames' = Push([kind |-> "do.body", stmt |-> stmt, dowhilebb |-> dowhilebb,
                           condbb |-> condbb, endbb |-> endbb,
                           prebb |-> scopebb])
  /\ nstmts' = nstmts + 1
  /\ UNCHANGED <<cleanupScopes, retVars, fatal,
                 catchScopes,
                 switchVars, labelVars>>

\* after the body: "branch to condition block", unconditionally
DoEnd ==
  /\ ~fatal /\ frames # <<>> /\ Top.kind = "do.body"
  /\ continueTargets' = popTarget(continueTargets)
  /\ breakTargets' = popTarget(breakTargets)
  /\ LET B1 == Emit(blocks, scopebb, Br(Top.condbb))
         B2 == Emit(B1, Top.condbb, Instr("exp", 0, <<>>, <<>>))
         B3 == Emit(B2, Top.condbb,
                    Instr("condbr", 0, <<Top.dowhilebb, Top.endbb>>, <<>>))
     IN blocks' = B3
  /\ scopebb' = Top.endbb
  /\ frames' = Pop
  /\ UNCHANGED <<cleanupScopes, retVars, nstmts, fatal,
                 catchScopes,
                 switchVars, labelVars>>

\* ------------------------------------------------------------- ForStatement
\* "we need to register the former as target scope start"
ForScopeStart(relatedLabeled) == Unwrap(relatedLabeled)

\* a slip: a continue goes back to the condition
ForContinueTarget_Cond(forbb, forincbb) == forbb

\* the block a continue inside the loop goes to, as registered
ForContinueTarget(forbb, forincbb) == forincbb

\* "if (stmt->condition) ... else cond_val = DtoConstBool(true)": the value
\* the conditional branch of the loop tests
ForCondition(condition) == IF condition THEN "cond" ELSE "true"

\* init, condition, increment: the loop has an init statement (an
\* expression or declaration), a condition, an increment.  The statement
\* getRelatedLabeled() returns is the loop wrapped in `wraps` ScopeStatements.
ForParts(init, condition, increment, wraps) ==
  /\ ~fatal /\ Len(frames) < MaxDepth
  /\ LET forbb == Len(blocks) + 1
         forbodybb == Len(blocks) + 2
         forincbb == Len(blocks) + 3
         endbb == Len(blocks) + 4
         scopeStart == ForScopeStart(Ref(nstmts + 1, wraps))
         B1 == Create(Create(Create(Create(blocks, "forcond"), "forbody"),
                             "forinc"), "endfor")
         B2 == IF init THEN Emit(B1, scopebb, Instr("exp", 0, <<>>, <<>>)) ELSE B1
         B3 == Emit(B2, scopebb, Br(forbb))
         B4 == IF condition
               THEN Emit(B3, forbb, Instr("exp", 0, <<>>, <<>>)) ELSE B3
         B5 == Emit(B4, forbb, Instr("condbr", 0, <<forbodybb, endbb>>,
                                     <<ForCondition(condition)>>))
     IN /\ blocks' = B5
        /\ scopebb' = forbodybb
        /\ continueTargets' =
             pushTarget(continueTargets, scopeStart,
                        ForContinueTarget(forbb, forincbb), cleanupScopes)
        /\ breakTargets' = pushTarget(breakTargets, scopeStart, endbb, cleanupScopes)
        /\ frames' = Push([kind |-> "for.body", stmt |-> Ref(nstmts + 1, 0),
                           forbb |-> forbb, forincbb |-> forincbb,
                           endbb |-> endbb, increment |-> increment,
                           prebb |-> scopebb, forbodybb |-> forbodybb,
                           condition |-> condition])
  /\ nstmts' = nstmts + 1
  /\ UNCHANGED <<cleanupScopes, retVars, fatal,
               catchScopes,
               switchVars, labelVars>>

\* full: the loop has an init statement, a condition and an increment;
\* otherwise it is for (;;)
For(full, wraps) == ForParts(full, full, full, wraps)

ForStatement == \E full \in BOOLEAN, wraps \in 0..MaxWraps : For(full, wraps)

\* a for loop with any of its three parts
ForStatementParts ==
  \E init, condition, increment \in BOOLEAN :
    ForParts(init, condition, increment, 0)

\* after the body
ForEnd ==
  /\ ~fatal /\ frames # <<>> /\ Top.kind = "for.body"
  /\ LET B1 == IF ~scopereturned(blocks, scopebb)
               THEN Emit(blocks, scopebb, Br(Top.forincbb))
               ELSE blocks
         B2 == IF Top.increment
               THEN Emit(B1, Top.forincbb, Instr("exp", 0, <<>>, <<>>))
               ELSE B1
         B3 == IF ~scopereturned(B2, Top.forincbb)
               THEN Emit(B2, Top.forincbb, Br(Top.forbb))
               ELSE B2
     IN blocks' = B3
  /\ continueTargets' = popTarget(continueTargets)
  /\ breakTargets' = popTarget(breakTargets)
  /\ scopebb' = Top.endbb
  /\ frames' = Pop
  /\ UNCHANGED <<cleanupScopes, retVars, nstmts, fatal,
                 catchScopes,
                 switchVars, labelVars>>

\* ----------------------------------------------------- UnrolledLoopStatement
\* a slip: the continue target of every child is the end block
UnrolledNextBlock_End(stmtBlocks, endbb, i) == endbb

\* "nextbb = (i + 1 == nstmt) ? endbb : blocks[i + 1]", i counted from 1
UnrolledNextBlock(stmtBlocks, endbb, i) ==
  IF i = Len(stmtBlocks) THEN endbb ELSE stmtBlocks[i + 1]

\* "if (!stmt->statements || !stmt->statements->dim) return" for nstmt = 0;
\* else up to the descent into the first child statement
UnrolledLoop(nstmt) ==
  /\ ~fatal /\ Len(frames) < MaxDepth
  /\ nstmts' = nstmts + 1
  /\ IF nstmt = 0
     THEN UNCHANGED <<blocks, scopebb, targetVars, frames>>
     ELSE LET stmt == Ref(nstmts + 1, 0)
              stmtBlocks == [i \in 1..nstmt |-> Len(blocks) + i]
              endbb == Len(blocks) + nstmt + 1
              B1 == [i \in 1..(Len(blocks) + nstmt + 1) |->
                       IF i <= Len(blocks) THEN blocks[i]
                       ELSE IF i = endbb
                       THEN [name |-> "unrolledend", instrs |-> <<>>]
                       ELSE [name |-> "unrolledstmt", instrs |-> <<>>]]
              B2 == IF ~scopereturned(B1, scopebb)
                    THEN Emit(B1, scopebb, Br(stmtBlocks[1]))
                    ELSE B1
              nextbb == UnrolledNextBlock(stmtBlocks, endbb, 1)
          IN /\ blocks' = B2
             /\ scopebb' = stmtBlocks[1]
             /\ continueTargets' =
                  pushTarget(continueTargets, stmt, nextbb, cleanupScopes)
             /\ breakTargets' =
                  pushTarget(breakTargets, stmt, endbb, cleanupScopes)
             /\ frames' = Push([kind |-> "unrolled.stmt", stmt |-> stmt,
                                blocks |-> stmtBlocks, endbb |-> endbb,
                                i |-> 1])
  /\ UNCHANGED <<cleanupScopes, catchScopes, retVars, fatal, switchVars,
                 labelVars>>

UnrolledLoopStatement == \E nstmt \in 0..MaxUnrolled : UnrolledLoop(nstmt)

\* from the end of a child statement to the descent into the next one
UnrolledNext ==
  /\ ~fatal /\ frames # <<>> /\ Top.kind = "unrolled.stmt"
  /\ Top.i < Len(Top.blocks)
  /\ LET i == Top.i + 1
         B1 == IF ~scopereturned(blocks, scopebb)
               THEN Emit(blocks, scopebb,
                         Br(UnrolledNextBlock(Top.blocks, Top.endbb, Top.i)))
               ELSE blocks
         nextbb == UnrolledNextBlock(Top.blocks, Top.endbb, i)
     IN /\ blocks' = B1
        /\ scopebb' = Top.blocks[i]
        /\ continueTargets' = pushTarget(popTarget(continueTargets), Top.stmt,
                                         nextbb, cleanupScopes)
        /\ breakTargets' = pushTarget(popTarget(breakTargets), Top.stmt,
                                      Top.endbb, cleanupScopes)
        /\ frames' = Append(Pop, [Top EXCEPT !.i = i])
  /\ UNCHANGED <<cleanupScopes, catchScopes, retVars, nstmts, fatal,
                 switchVars, labelVars>>

\* after the last child statement
UnrolledEnd ==
  /\ ~fatal /\ frames # <<>> /\ Top.kind = "unrolled.stmt"
  /\ Top.i = Len(Top.blocks)
  /\ LET B1 == IF ~scopereturned(blocks, scopebb)
               THEN Emit(blocks, scopebb,
                         Br(UnrolledNextBlock(Top.blocks, Top.endbb, Top.i)))
               ELSE blocks
         B2 == IF ~scopereturned(B1, scopebb)
               THEN Emit(B1, scopebb, Br(Top.endbb))
               ELSE B1
     IN blocks' = B2
  /\ continueTargets' = popTarget(continueTargets)
  /\ breakTargets' = popTarget(breakTargets)
  /\ scopebb' = Top.endbb
  /\ frames' = Pop
  /\ UNCHANGED <<cleanupScopes, catchScopes, retVars, nstmts, fatal,
                 switchVars, labelVars>>

\* --------------------------------------- ForeachStatement, ForeachRangeStatement
\* the two directions: stmt->op
ForeachOps == {"TOKforeach", "TOKforeach_reverse"}

\* the width of size_t, and the widths a key may have
KeyWidths == {SizeBits - 1, SizeBits, SizeBits + 1}

\* a slip: the comparison is signed whatever the type of the key
RangeCmp_Signed(op, unsigned) == IF op = "TOKforeach" THEN "slt" ELSE "sgt"

\* "if (isLLVMUnsigned(stmt->key->type)) cmpop = ... ICMP_ULT : ICMP_UGT
\* else cmpop = ... ICMP_SLT : ICMP_SGT"
RangeCmp(op, unsigned) ==
  IF unsigned
  THEN IF op = "TOKforeach" THEN "ult" ELSE "ugt"
  ELSE IF op = "TOKforeach" THEN "slt" ELSE "sgt"

\* "store initial value in key": DtoStore(lower, keyval) or
\* DtoStore(upper, keyval)
RangeInit(op) == IF op = "TOKforeach" THEN "lower" ELSE "upper"

\* ForeachRangeStatement, up to the descent into the body. The key has
\* SizeBits bits; unsigned: isLLVMUnsigned(stmt->key->type)
ForeachRange(op, unsigned) ==
  /\ ~fatal /\ Len(frames) < MaxDepth
  /\ LET stmt == Ref(nstmts + 1, 0)
         B1 == Emit(Emit(blocks, scopebb, Instr("exp", 0, <<>>, <<>>)),
                    scopebb, Instr("exp", 0, <<>>, <<>>))
         B2 == Emit(B1, scopebb, Instr("store", 0, <<>>, <<RangeInit(op)>>))
         B3 == Create(Create(Create(Create(B2, "foreachrange_cond"),
                                    "foreachrange_body"),
                             "foreachrange_next"),
                      "foreachrange_end")
         condbb == Len(B2) + 1
         bodybb == Len(B2) + 2
         nextbb == Len(B2) + 3
         endbb == Len(B2) + 4
         B4 == Emit(B3, scopebb, Br(condbb))
         B5 == Emit(B4, condbb,
                    Instr("icmp", 0, <<>>, <<RangeCmp(op, unsigned), "upper">>))
         B6 == Emit(B5, condbb, Instr("condbr", 0, <<bodybb, endbb>>, <<>>))
         B7 == IF op = "TOKforeach_reverse"
               THEN Emit(B6, bodybb, Instr("sub", 1, <<>>, <<>>))
               ELSE B6
     IN /\ blocks' = B7
        /\ scopebb' = bodybb
        /\ continueTargets' = pushTarget(continueTargets, stmt, nextbb, cleanupScopes)
        /\ breakTargets' = pushTarget(breakTargets, stmt, endbb, cleanupScopes)
        /\ frames' = Push([kind |-> "foreachrange.body", stmt |-> stmt,
                           op |-> op, unsigned |-> unsigned, keybits |-> SizeBits,
                           prebb |-> scopebb,
                           prepc |-> Len(blocks[scopebb].instrs) + 1,
                           condbb |-> condbb, bodybb |-> bodybb,
                           bodypc |-> Len(B7[bodybb].instrs) + 1,
                           nextbb |-> nextbb, endbb |-> endbb])
  /\ nstmts' = nstmts + 1
  /\ UNCHANGED <<cleanupScopes, catchScopes, retVars, fatal, switchVars,
                 labelVars>>

ForeachRangeStatement ==
  \E op \in ForeachOps, unsigned \in BOOLEAN : ForeachRange(op, unsigned)

\* after the body
ForeachRangeEnd ==
  /\ ~fatal /\ frames # <<>> /\ Top.kind = "foreachrange.body"
  /\ continueTargets' = popTarget(continueTargets)
  /\ breakTargets' = popTarget(breakTargets)
  /\ LET B1 == IF ~scopereturned(blocks, scopebb)
               THEN Emit(blocks, scopebb, Br(Top.nextbb))
               ELSE blocks
         B2 == IF Top.op = "TOKforeach"
               THEN Emit(B1, Top.nextbb, Instr("add", 1, <<>>, <<>>))
               ELSE B1
     IN blocks' = Emit(B2, Top.nextbb, Br(Top.condbb))
  /\ scopebb' = Top.endbb
  /\ frames' = Pop
  /\ UNCHANGED <<cleanupScopes, catchScopes, retVars, nstmts, fatal,
                 switchVars, labelVars>>

\* the conversion of the length to the type of the key: CreateZExt,
\* CreateTrunc or CreateBitCast "foreachtrunckey"
ConvertLength(keybits) ==
  IF SizeBits < keybits THEN "zext"
  ELSE IF SizeBits > keybits THEN "trunc"
  ELSE "bitcast"

\* a slip: the key of a reverse foreach starts from zero too
ForeachInit_Zero(op) == "zerokey"

\* "new llvm::StoreInst(zerokey, keyvar, ...)" or
\* "new llvm::StoreInst(niters, keyvar, ...)"
ForeachInit(op) == IF op = "TOKforeach" THEN "zerokey" ELSE "niters"

\* ForeachStatement over an array, up to the descent into the body;
\* keybits: the width of the key
Foreach(op, keybits) ==
  /\ ~fatal /\ Len(frames) < MaxDepth
  /\ LET stmt == Ref(nstmts + 1, 0)
         B1 == Emit(blocks, scopebb, Instr("exp", 0, <<>>, <<>>))
         B2 == Emit(B1, scopebb, Instr(ConvertLength(keybits), keybits, <<>>, <<>>))
         B3 == Emit(B2, scopebb, Instr("store", 0, <<>>, <<ForeachInit(op)>>))
         B4 == Create(Create(Create(Create(B3, "foreachcond"), "foreachbody"),
                             "foreachnext"),
                      "foreachend")
         condbb == Len(B3) + 1
         bodybb == Len(B3) + 2
         nextbb == Len(B3) + 3
         endbb == Len(B3) + 4
         B5 == Emit(B4, scopebb, Br(condbb))
         B6 == IF op = "TOKforeach"
               THEN Emit(B5, condbb, Instr("icmp", 0, <<>>, <<"ult", "niters">>))
               ELSE Emit(Emit(B5, condbb,
                              Instr("icmp", 0, <<>>, <<"ugt", "zerokey">>)),
                         condbb, Instr("sub", 1, <<>>, <<>>))
         B7 == Emit(B6, condbb, Instr("condbr", 0, <<bodybb, endbb>>, <<>>))
         B8 == Emit(B7, bodybb, Instr("gep", 0, <<>>, <<>>))
     IN /\ blocks' = B8
        /\ scopebb' = bodybb
        /\ continueTargets' = pushTarget(continueTargets, stmt, nextbb, cleanupScopes)
        /\ breakTargets' = pushTarget(breakTargets, stmt, endbb, cleanupScopes)
        /\ frames' = Push([kind |-> "foreach.body", stmt |-> stmt,
                           op |-> op, unsigned |-> TRUE, keybits |-> keybits,
                           prebb |-> scopebb,
                           prepc |-> Len(blocks[scopebb].instrs) + 1,
                           condbb |-> condbb, bodybb |-> bodybb,
                           bodypc |-> 1,
                           nextbb |-> nextbb, endbb |-> endbb])
  /\ nstmts' = nstmts + 1
  /\ UNCHANGED <<cleanupScopes, catchScopes, retVars, fatal, switchVars,
                 labelVars>>

ForeachStatement ==
  \E op \in ForeachOps, keybits \in KeyWidths : Foreach(op, keybits)

\* after the body
ForeachEnd ==
  /\ ~fatal /\ frames # <<>> /\ Top.kind = "foreach.body"
  /\ continueTargets' = popTarget(continueTargets)
  /\ breakTargets' = popTarget(breakTargets)
  /\ LET B1 == IF ~scopereturned(blocks, scopebb)
               THEN Emit(blocks, scopebb, Br(Top.nextbb))
               ELSE blocks
         B2 == IF Top.op = "TOKforeach"
               THEN Emit(B1, Top.nextbb, Instr("add", 1, <<>>, <<>>))
               ELSE B1
     IN blocks' = Emit(B2, Top.nextbb, Br(Top.condbb))
  /\ scopebb' = Top.endbb
  /\ frames' = Pop
  /\ UNCHANGED <<cleanupScopes, catchScopes, retVars, nstmts, fatal,
                 switchVars, labelVars>>

\* ------------------------------------------- BreakStatement, ContinueStatement
\* a slip: the labelled statement is looked up as it is, ScopeStatements and all
JumpTargetStatement_Wrapped(target) == target

\* "Get the loop or break statement the label refers to"
JumpTargetStatement(target) == Unwrap(target)

\* the jump itself: to the target found on the stack, or an error when the
\* labelled statement is not on it; then a new block is started
Jump(targets, found, after) ==
  IF found = 0
  THEN /\ fatal' = TRUE
       /\ UNCHANGED <<blocks, scopebb>>
  ELSE LET B1 == jumpToTarget(blocks, scopebb, cleanupScopes, targets, found)
           new == StartBlock(B1, scopebb, after)
       IN /\ blocks' = new.blocks
          /\ scopebb' = new.scope
          /\ fatal' = fatal

\* ident: the break names a label, whose statement is target
Break(ident, target) ==
  /\ ~fatal
  /\ IF scopereturned(blocks, scopebb)
     THEN UNCHANGED <<blocks, scopebb, fatal>>
     ELSE Jump(breakTargets,
               IF ident
               THEN FindTarget(breakTargets, JumpTargetStatement(target))
               ELSE Len(breakTargets),
               "afterbreak")
  /\ nstmts' = nstmts + 1
  /\ UNCHANGED <<cleanupScopes, targetVars, retVars, frames,
                 catchScopes,
                 switchVars, labelVars>>

BreakStatement ==
  \/ BreakableFrames # {} /\ Break(FALSE, Ref(0, 0))
  \/ \E j \in BreakableFrames, wraps \in 0..MaxWraps :
       Break(TRUE, Ref(frames[j].stmt.core, wraps))

Continue(ident, target) ==
  /\ ~fatal
  /\ Jump(continueTargets,
          IF ident
          THEN FindTarget(continueTargets, JumpTargetStatement(target))
          ELSE Len(continueTargets),
          "afterbreak")
  /\ nstmts' = nstmts + 1
  /\ UNCHANGED <<cleanupScopes, targetVars, retVars, frames,
                 catchScopes,
                 switchVars, labelVars>>

ContinueStatement ==
  \/ LoopFrames # {} /\ Continue(FALSE, Ref(0, 0))
  \/ \E j \in LoopFrames, wraps \in 0..MaxWraps :
       Continue(TRUE, Ref(frames[j].stmt.core, wraps))

\* ------------------------------------------------------------- exceptions
\* Classes: 1 is the root of the throwable hierarchy, the others derive
\* from it directly and from nothing else.
ClassIds == {1, 2, 3}

\* an exception of dynamic class T is caught by a catch of class C
Matches(T, C) == T = C \/ C = 1

\* the catch lists the front end accepts: no catch is hidden by an earlier one
CatchLists ==
  {cs \in UNION {[1..n -> ClassIds] : n \in 1..MaxCatches} :
     \A i, j \in 1..Len(cs) : i < j => ~Matches(cs[j], cs[i])}

\* scopes->pushCatch(classInfoPtr, bodyBlock)
pushCatch(catches, classInfoPtr, bodyBlock, scopes) ==
  Append(catches, [classInfoPtr |-> classInfoPtr, bodyBlock |-> bodyBlock,
                   cleanupScope |-> currentCleanupScope(scopes)])

\* scopes->popCatch()
popCatch(catches) == SubSeq(catches, 1, Len(catches) - 1)

\* scopes->getLandingPad(): what an exception raised here goes through, from
\* the inside out: a cleanup entered at depth d is run once every catch
\* registered inside it has been tried, a catch is tried once every cleanup
\* entered inside it has run. A step is [block, class], class 0 for a cleanup.
RECURSIVE LandingPad(_, _, _, _)
LandingPad(scopes, catches, d, c) ==
  IF c > 0 /\ catches[c].cleanupScope >= d
  THEN <<[block |-> catches[c].bodyBlock, class |-> catches[c].classInfoPtr]>>
       \o LandingPad(scopes, catches, d, c - 1)
  ELSE IF d > 0
  THEN <<[block |-> scopes[d].beginBlock, class |-> 0]>>
       \o LandingPad(scopes, catches, d - 1, c)
  ELSE <<>>

getLandingPad(scopes, catches) ==
  LandingPad(scopes, catches, Len(scopes), Len(catches))

\* irs->CreateCallOrInvoke(fn, ...): a plain call when nothing is pending,
\* else an invoke unwinding to the landing pad
CreateCallOrInvoke(B, cur, scopes, catches) ==
  IF currentCleanupScope(scopes) = 0 /\ Len(catches) = 0
  THEN Emit(B, cur, Instr("call", 0, <<>>, <<>>))
  ELSE LET pad == getLandingPad(scopes, catches)
       IN Emit(B, cur, Instr("invoke", 0,
                             [k \in 1..Len(pad) |-> pad[k].block],
                             [k \in 1..Len(pad) |-> pad[k].class]))

\* a slip: the call of the raise operation ends the throw
CreateUnreachable_Missing(B, cur) == B

\* "irs->ir->CreateUnreachable()"
CreateUnreachable(B, cur) == Emit(B, cur, Instr("unreachable", 0, <<>>, <<>>))

\* ThrowStatement
ThrowStatement ==
  /\ ~fatal
  /\ LET B1 == Emit(blocks, scopebb, Instr("exp", 0, <<>>, <<>>))
         B2 == CreateCallOrInvoke(B1, scopebb, cleanupScopes, catchScopes)
         B3 == CreateUnreachable(B2, scopebb)
         after == StartBlock(B3, scopebb, "afterthrow")
     IN /\ blocks' = after.blocks
        /\ scopebb' = after.scope
  /\ nstmts' = nstmts + 1
  /\ UNCHANGED <<cleanupScopes, catchScopes, targetVars, retVars, frames, fatal,
                 switchVars, labelVars>>

\* --------------------------------------------------------- TryCatchStatement
\* a slip: the catch bodies are lowered first to last
CatchIteration_Forward(n) == [k \in 1..n |-> k]

\* "for (Catches::reverse_iterator it = rbegin(); it != rend(); ++it)":
\* the k-th catch lowered is the catch of this index in the source
CatchIteration(n) == [k \in 1..n |-> n + 1 - k]

\* the head of one iteration: a block for the catch, entered by
\* _d_eh_enter_catch
CatchBegin(B) ==
  LET B1 == Create(B, "catch")
  IN Emit(B1, Len(B1), Instr("call", 0, <<>>, <<>>))

\* a slip: the catches of the funclet strategy are lowered last to first
CatchIterationMSVC_Reverse(n) == [k \in 1..n |-> n + 1 - k]

\* "for (auto it = stmt->catches->begin(), end = stmt->catches->end(); ...)"
CatchIterationMSVC(n) == [k \in 1..n |-> k]

\* "llvm::CatchSwitchInst::Create(funclet, unwindto, ...)" in a new block
\* "catch.dispatch": a route with no handler yet (n counts the handlers),
\* continued by the landing pad an exception no handler takes unwinds to
CatchSwitch(B, scopes, catches) ==
  LET unwindto == IF currentCleanupScope(scopes) > 0 \/ Len(catches) > 0
                  THEN getLandingPad(scopes, catches)
                  ELSE <<>>
      B1 == Create(B, "catch.dispatch")
  IN Emit(B1, Len(B1),
          Instr("catchswitch", 0,
                [k \in 1..Len(unwindto) |-> unwindto[k].block],
                [k \in 1..Len(unwindto) |-> unwindto[k].class]))

\* a slip: the catch pad is not made a handler of the catch switch
addHandler_Dropped(si, bb, class) == si

\* "catchSwitchInst->addHandler(irs->scopebb())": after the handlers it has
addHandler(si, bb, class) ==
  [si EXCEPT !.n = @ + 1,
             !.succ = SubSeq(@, 1, si.n) \o <<bb>> \o SubSeq(@, si.n + 1, Len(@)),
             !.keys = SubSeq(@, 1, si.n) \o <<class>> \o SubSeq(@, si.n + 1, Len(@))]

\* emitBeginCatchMSVCEH(ctch, endbb, catchSwitchInst) in block catchBB: the
\* catch pad, made a handler of the catch switch, is left at once by a catch
\* return to a new block "catchhandler", which calls _d_eh_enter_catch
emitBeginCatchMSVCEH(B, catchBB, class, catchSwitchBlock, scopes, catches) ==
  LET B1 == Emit(B, catchBB, Instr("catchpad", class, <<>>, <<>>))
      B2 == [B1 EXCEPT ![catchSwitchBlock].instrs[1] = addHandler(@, catchBB, class)]
      B3 == Create(B2, "catchhandler")
      B4 == Emit(B3, catchBB, Instr("catchret", 0, <<Len(B3)>>, <<>>))
  IN CreateCallOrInvoke(B4, Len(B3), scopes, catches)

\* the head of one iteration of the funclet strategy
CatchBeginMSVC(B, class, catchSwitchBlock, scopes, catches) ==
  LET B1 == Create(B, "catch")
  IN emitBeginCatchMSVCEH(B1, Len(B1), class, catchSwitchBlock, scopes, catches)

\* a slip: every catch is registered as soon as its body is lowered
CatchesToPush_Eager(catchBlocks, done) == <<catchBlocks[Len(catchBlocks)]>>

\* "Only after emitting all the catch bodies, register the catch scopes":
\* the catches registered when a catch body has been lowered; done: it was
\* the last one
CatchesToPush(catchBlocks, done) == IF done THEN catchBlocks ELSE <<>>

\* "for (const auto &cb : catchBlocks) pushCatch(...)"
RECURSIVE PushCatches(_, _, _, _)
PushCatches(catches, catchBlocks, k, scopes) ==
  IF k > Len(catchBlocks)
  THEN catches
  ELSE PushCatches(pushCatch(catches, catchBlocks[k].classdecl,
                             catchBlocks[k].BB, scopes),
                   catchBlocks, k + 1, scopes)

\* a slip: one catch is popped whatever number was pushed
PopCatches_One(catches, n) == popCatch(catches)

\* "for (i < catchBlocks.size()) popCatch()"
RECURSIVE PopCatches(_, _)
PopCatches(catches, n) ==
  IF n = 0 THEN catches ELSE PopCatches(popCatch(catches), n - 1)

\* up to the descent into the body of the first catch lowered
TryCatch(catches) ==
  /\ ~fatal /\ Len(frames) < MaxDepth
  /\ LET trybb == scopebb
         B1 == Create(blocks, "try.success.or.caught")
         endbb == Len(B1)
         n == Len(catches)
         S == CatchSwitch(B1, cleanupScopes, catchScopes)
         catchSwitchBlock == Len(S)
         B2 == IF useMSVCEH
               THEN CatchBeginMSVC(S, catches[CatchIterationMSVC(n)[1]],
                                   catchSwitchBlock, cleanupScopes, catchScopes)
               ELSE CatchBegin(B1)
     IN /\ blocks' = B2
        /\ scopebb' = Len(B2)
        /\ frames' = Push([kind |-> "trycatch.catch", trybb |-> trybb,
                           endbb |-> endbb, catches |-> catches,
                           it |-> 1,
                           catchBB |-> IF useMSVCEH THEN catchSwitchBlock + 1
                                       ELSE Len(B2),
                           catchBlocks |-> <<>>,
                           catchSwitchBlock |-> IF useMSVCEH
                                                THEN catchSwitchBlock ELSE 0,
                           handlers |-> <<>>])
  /\ nstmts' = nstmts + 1
  /\ UNCHANGED <<cleanupScopes, catchScopes, targetVars, retVars, fatal,
                 switchVars, labelVars>>

TryCatchStatement == \E catches \in CatchLists : TryCatch(catches)

\* from the end of a catch body to the descent into the next one, or, after
\* the last one, to the descent into the try body
TryCatchHandlerEnd ==
  /\ ~fatal /\ frames # <<>> /\ Top.kind = "trycatch.catch"
  /\ LET n == Len(Top.catches)
         B1 == IF ~scopereturned(blocks, scopebb)
               THEN Emit(blocks, scopebb, Br(Top.endbb))
               ELSE blocks
         index == CatchIteration(n)[Top.it]
         cb == [classdecl |-> Top.catches[index], BB |-> Top.catchBB,
                index |-> index]
         catchBlocks == Append(Top.catchBlocks, cb)
         \* the catches lowered so far: source index and first block
         handlers == Append(Top.handlers,
                            [index |-> IF useMSVCEH
                                       THEN CatchIterationMSVC(n)[Top.it]
                                       ELSE index,
                             BB |-> Top.catchBB])
     IN IF useMSVCEH
        THEN IF Top.it < n
             THEN LET B2 == CatchBeginMSVC(
                              B1, Top.catches[CatchIterationMSVC(n)[Top.it + 1]],
                              Top.catchSwitchBlock, cleanupScopes, catchScopes)
                  IN /\ blocks' = B2
                     /\ scopebb' = Len(B2)
                     /\ frames' = Append(Pop, [Top EXCEPT !.it = @ + 1,
                                                          !.catchBB = Len(B1) + 1,
                                                          !.handlers = handlers])
                     /\ UNCHANGED catchScopes
             ELSE /\ blocks' = B1
                  /\ scopebb' = Top.trybb
                  /\ catchScopes' = pushCatch(catchScopes, 0,
                                              Top.catchSwitchBlock, cleanupScopes)
                  /\ frames' = Append(Pop, [kind |-> "trycatch.body",
                                            endbb |-> Top.endbb,
                                            catches |-> Top.catches,
                                            catchBlocks |->
                                              <<[classdecl |-> 0,
                                                 BB |-> Top.catchSwitchBlock,
                                                 index |-> 0]>>,
                                            handlers |-> handlers])
        ELSE /\ catchScopes' =
                  PushCatches(catchScopes,
                              CatchesToPush(catchBlocks, Top.it = n), 1,
                              cleanupScopes)
             /\ IF Top.it < n
                THEN LET B2 == CatchBegin(B1)
                     IN /\ blocks' = B2
                        /\ scopebb' = Len(B2)
                        /\ frames' = Append(Pop, [Top EXCEPT !.it = @ + 1,
                                                             !.catchBB = Len(B2),
                                                             !.catchBlocks = catchBlocks,
                                                             !.handlers = handlers])
                ELSE /\ blocks' = B1
                     /\ scopebb' = Top.trybb
                     /\ frames' = Append(Pop, [kind |-> "trycatch.body",
                                               endbb |-> Top.endbb,
                                               catches |-> Top.catches,
                                               catchBlocks |-> catchBlocks,
                                               handlers |-> handlers])
  /\ UNCHANGED <<cleanupScopes, targetVars, retVars, nstmts, fatal,
                 switchVars, labelVars>>

\* after the try body
TryCatchEnd ==
  /\ ~fatal /\ frames # <<>> /\ Top.kind = "trycatch.body"
  /\ blocks' = IF ~scopereturned(blocks, scopebb)
               THEN Emit(blocks, scopebb, Br(Top.endbb))
               ELSE blocks
  /\ catchScopes' = PopCatches(catchScopes, Len(Top.catchBlocks))
  /\ scopebb' = Top.endbb
  /\ frames' = Pop
  /\ UNCHANGED <<cleanupScopes, targetVars, retVars, nstmts, fatal,
                 switchVars, labelVars>>

\* ----------------------------------------------------------- SwitchStatement
\* the values a case label or the controlling expression may have
CaseValues == {1, 2, 5}
CondValues == {1, 2, 3, 5}

\* the expression of a case label: its value, its kind (a literal, or
\* "TOKvar", a variable), and for a variable whether its declaration has an
\* initializer (vd->_init) and is const (vd->isConst())
Exp(value, op, init, isConst) ==
  [value |-> value, op |-> op, init |-> init, isConst |-> isConst]

\* a case label that is a variable
VarExp(value, init, isConst) == Exp(value, "TOKvar", init, isConst)

\* a case label that is a literal (constant), or else a variable that is
\* neither initialized nor const
CaseExp(value, constant) ==
  IF constant THEN Exp(value, "TOKint64", TRUE, TRUE)
  ELSE VarExp(value, FALSE, FALSE)

\* a slip: a variable that is initialized but not const is taken as constant
isRuntimeVar_Uninitialized(exp) == exp.op = "TOKvar" /\ ~exp.init

\* "cs->exp->op == TOKvar ... if (vd && (!vd->_init || !vd->isConst()))":
\* the label is read at run time
isRuntimeVar(exp) == exp.op = "TOKvar" /\ (~exp.init \/ ~exp.isConst)

\* the case lists with a label read at run time: the literals are distinct,
\* the values of the variables are whatever they are when the switch is met
LinearCaseLists ==
  {cs \in UNION {[1..n -> {CaseExp(v, c) : v \in CaseValues, c \in BOOLEAN}] :
                   n \in 1..MaxCases} :
     /\ \E i \in 1..Len(cs) : isRuntimeVar(cs[i])
     /\ \A i, j \in 1..Len(cs) :
          (i # j /\ ~isRuntimeVar(cs[i]) /\ ~isRuntimeVar(cs[j]))
            => cs[i].value # cs[j].value}

\* the case lists with every kind of label
VarCaseLists ==
  {cs \in UNION {[1..n -> {CaseExp(v, TRUE) : v \in CaseValues} \cup
                           {VarExp(v, i, c) :
                              v \in CaseValues, i \in BOOLEAN, c \in BOOLEAN}] :
                   n \in 0..MaxCases} :
     \A i, j \in 1..Len(cs) : i # j => cs[i].value # cs[j].value}

\* the case lists the front end accepts: the values are distinct
CaseLists ==
  {cs \in UNION {[1..n -> {CaseExp(v, c) : v \in CaseValues, c \in BOOLEAN}] :
                   n \in 0..MaxCases} :
     \A i, j \in 1..Len(cs) : i # j => cs[i].value # cs[j].value}

\* the characters of the case strings: 1, 2, 3 for a, b, c
Chars == {1, 2, 3}

\* the strings a case label or the controlling expression may be
Strings == {<<1>>, <<2>>, <<3>>, <<1, 2>>}
CondStrings == Strings \cup {<<2, 1>>}

\* the case lists of a string switch: constant, distinct strings
StringCaseLists ==
  {cs \in UNION {[1..n -> {CaseExp(v, TRUE) : v \in Strings}] :
                   n \in 0..MaxCases} :
     \A i, j \in 1..Len(cs) : i # j => cs[i].value # cs[j].value}

\* StringExp::compare(l, r) < 0: l comes before r in lexicographic order
RECURSIVE compare(_, _)
compare(l, r) ==
  IF r = <<>> THEN FALSE
  ELSE IF l = <<>> THEN TRUE
  ELSE IF Head(l) # Head(r) THEN Head(l) < Head(r)
  ELSE compare(Tail(l), Tail(r))

\* a slip: the array of cases is left in source order
SortCaseArray_Unsorted(caseArray) == caseArray

\* "std::sort(caseArray.begin(), caseArray.end())" over Case(str, index)
\* entries with distinct strings
SortCaseArray(caseArray) ==
  [i \in 1..Len(caseArray) |->
     caseArray[CHOOSE k \in 1..Len(caseArray) :
                 Cardinality({j \in 1..Len(caseArray) :
                                compare(caseArray[j].str, caseArray[k].str)})
                   = i - 1]]

\* "caseArray.emplace_back(static_cast<StringExp *>(cs->exp), i)", sorted
CaseArray(cases) ==
  SortCaseArray([i \in 1..Len(cases) |->
                   [str |-> cases[i].exp.value, index |-> i]])

\* "cs = cases->data[c.index]; cs->llvmIdx = DtoConstUint(i)" for every
\* entry c of the sorted array, i counted from 0
StringIndices(cases, caseArray) ==
  [k \in 1..Len(cases) |->
     [cases[k] EXCEPT !.llvmIdx =
        (CHOOSE i \in 1..Len(caseArray) : caseArray[i].index = k) - 1]]

\* "inits[i] = toConstElem(c.str, irs)": the constant table
StringTable(caseArray) == [i \in 1..Len(caseArray) |-> caseArray[i].str]

\* _d_switch_string(table, s): the index of s in the table counted from 0,
\* -1 when it is not there
SwitchString(table, str) ==
  IF \E i \in 1..Len(table) : table[i] = str
  THEN (CHOOSE i \in 1..Len(table) : table[i] = str) - 1
  ELSE -1

\* "isaConstantInt(toConstElem(stmt->exp, irs))": null for a string constant
isaConstantInt(exp, isintegral) == IF isintegral THEN exp.value ELSE 0

\* the statements of a switch with these labels: itself, its cases, its default
SwitchSize(exps, hasDefault) == 1 + Len(exps) + IF hasDefault THEN 1 ELSE 0

\* "bool useSwitchInst": no label is a run-time variable
useSwitchInst(cases) == \A k \in 1..Len(cases) : ~isRuntimeVar(cases[k].exp)

\* a slip: the default block is not used as the fallback
DefaultTarget_End(defbb, endbb) == endbb

\* "defbb ? defbb : endbb"
DefaultTarget(defbb, endbb) == IF defbb # 0 THEN defbb ELSE endbb

\* a slip: the counter block is left without its branch
CounterBlock_Open(B, name, target) == Create(B, name)

\* a counter block in front of block target, for profile instrumentation
CounterBlock(B, name, target) ==
  LET B1 == Create(B, name)
  IN Emit(B1, Len(B1), Br(target))

\* the counter blocks of cases k.., in order
RECURSIVE CaseCounters(_, _, _)
CaseCounters(B, cases, k) ==
  IF k > Len(cases) THEN B
  ELSE CaseCounters(CounterBlock(B, "casecntr", cases[k].bodyBB), cases, k + 1)

\* "llvm::SwitchInst::Create" and "si->addCase": one switch instruction in
\* block cur, its first successor the default destination, then one
\* successor per case
SwitchInst(B1, cur, cases, defbb, endbb, prof) ==
  LET n == Len(cases)
      keys == [k \in 1..n |-> cases[k].llvmIdx]
  IN IF ~prof
     THEN Emit(B1, cur,
               Instr("switch", 0,
                     <<DefaultTarget(defbb, endbb)>> \o
                       [k \in 1..n |-> cases[k].bodyBB],
                     keys))
     ELSE LET B2 == CounterBlock(B1, "defaultcntr", DefaultTarget(defbb, endbb))
              defaultcntr == Len(B2)
              B3 == CaseCounters(B2, cases, 1)
          IN Emit(B3, cur,
                  Instr("switch", 0,
                        <<defaultcntr>> \o [k \in 1..n |-> defaultcntr + k],
                        keys))

\* the table strategy of an integral switch: the controlling value, then
\* the switch instruction
TableDispatch(B, cur, cases, defbb, endbb, prof) ==
  SwitchInst(Emit(B, cur, Instr("exp", 0, <<>>, <<>>)), cur, cases, defbb,
             endbb, prof)

\* call_string_switch_runtime(table, e): the controlling string, then the
\* call of the runtime's search, which is handed table number `table`
call_string_switch_runtime(B, cur, table, scopes, catches) ==
  LET B1 == Emit(B, cur, Instr("exp", 0, <<>>, <<>>))
      B2 == CreateCallOrInvoke(B1, cur, scopes, catches)
  IN [B2 EXCEPT ![cur].instrs[Len(B2[cur].instrs)].n = table]

\* the table strategy of a string switch: the cases are given the index of
\* their string in the sorted table, the runtime finds the index of the
\* controlling string, and the switch instruction works on indices
StringDispatch(B, cur, cases, defbb, endbb, prof, table, scopes, catches) ==
  SwitchInst(call_string_switch_runtime(B, cur, table, scopes, catches), cur,
             StringIndices(cases, CaseArray(cases)), defbb, endbb, prof)

\* a slip: the two destinations of the comparison branch are exchanged
CompareTargets_Swapped(casejumptargetbb, nextbb) == <<nextbb, casejumptargetbb>>

\* "BranchInst::Create(casejumptargetbb, nextbb, cmp, irs->scopebb())"
CompareTargets(casejumptargetbb, nextbb) == <<casejumptargetbb, nextbb>>

\* a slip: the block of the last failed comparison is left open
ChainEnd_Open(B, cur, defaultjumptarget) == B

\* "llvm::BranchInst::Create(defaultjumptarget, irs->scopebb())" after the
\* loop over the cases
ChainEnd(B, cur, defaultjumptarget) == Emit(B, cur, Br(defaultjumptarget))

\* the comparisons of cases k.. of the linear strategy, from block cur on,
\* and the branch that follows the last one
RECURSIVE CheckCases(_, _, _, _, _, _)
CheckCases(B, cur, cases, k, defaultjumptarget, prof) ==
  IF k > Len(cases)
  THEN ChainEnd(B, cur, defaultjumptarget)
  ELSE LET B1 == Emit(B, cur, Instr("icmp", cases[k].llvmIdx, <<>>, <<>>))
           B2 == Create(B1, "checkcase")
           nextbb == Len(B2)
           B3 == IF prof
                 THEN CounterBlock(B2, "casecntr", cases[k].bodyBB)
                 ELSE B2
           casejumptargetbb == IF prof THEN Len(B3) ELSE cases[k].bodyBB
           B4 == Emit(B3, cur,
                      Instr("condbr", 0,
                            CompareTargets(casejumptargetbb, nextbb), <<>>))
       IN CheckCases(B4, nextbb, cases, k + 1, defaultjumptarget, prof)

\* the linear strategy: "a bunch of br instructions"
LinearDispatch(B, cur, cases, defbb, endbb, prof) ==
  LET B1 == Emit(B, cur, Instr("exp", 0, <<>>, <<>>))
      B2 == Create(B1, "checkcase")
      nextbb == Len(B2)
      B3 == Emit(B2, cur, Br(nextbb))
      B4 == IF prof
            THEN CounterBlock(B3, "defaultcntr", DefaultTarget(defbb, endbb))
            ELSE B3
      defaultjumptarget == IF prof THEN Len(B4) ELSE DefaultTarget(defbb, endbb)
  IN CheckCases(B4, nextbb, cases, 1, defaultjumptarget, prof)

\* "cs->llvmIdx = DtoRVal(toElemDtor(cs->exp))" for the run-time labels k..,
\* each read in block cur
RECURSIVE ReadLabels(_, _, _, _)
ReadLabels(B, cur, cases, k) ==
  IF k > Len(cases) THEN B
  ELSE ReadLabels(IF ~isRuntimeVar(cases[k].exp) THEN B
                  ELSE Emit(B, cur, Instr("exp", 0, <<>>, <<>>)),
                  cur, cases, k + 1)

\* up to the descent into the body; isintegral: "condition->type->isintegral()"
\* a slip: the switch is registered as a loop, its end block the target of
\* a continue
SwitchContinueTargets_Pushed(targets, stmt, endbb, scopes) ==
  pushTarget(targets, stmt, endbb, scopes)

\* "irs->func()->scopes->pushBreakTarget(stmt, endbb)": a break target and
\* no continue target
SwitchContinueTargets(targets, stmt, endbb, scopes) == targets

SwitchOn(exps, hasDefault, isintegral) ==
  /\ ~fatal /\ Len(frames) < MaxDepth
  /\ LET oldbb == scopebb
         stmt == Ref(nstmts + 1, 0)
         \* the scratch fields are members of the statement: null in a
         \* statement never lowered, else what its last lowering left
         known == {s \in 1..Len(switches) : switches[s].node = nstmts + 1}
         sw == IF known = {} THEN Len(switches) + 1
               ELSE CHOOSE s \in known : TRUE
         cases == [k \in 1..Len(exps) |->
                     [exp |-> exps[k],
                      bodyBB |-> IF known = {} THEN 0
                                 ELSE switches[sw].cases[k].bodyBB,
                      llvmIdx |-> IF isRuntimeVar(exps[k]) THEN exps[k].value
                                  ELSE IF known = {} THEN 0
                                  ELSE switches[sw].cases[k].llvmIdx]]
         B1 == ReadLabels(blocks, oldbb, cases, 1)
         B2 == Create(Create(B1, "switchbody"), "switchend")
         bodybb == Len(B2) - 1
         endbb == Len(B2)
         B3 == IF hasDefault THEN Create(B2, "default") ELSE B2
         defbb == IF hasDefault THEN Len(B3) ELSE 0
         node == [node |-> nstmts + 1,
                  cases |-> cases,
                  isintegral |-> isintegral,
                  hasDefault |-> hasDefault,
                  sdefault |-> [bodyBB |-> defbb]]
     IN /\ blocks' = B3
        /\ scopebb' = bodybb
        /\ switches' = IF known = {} THEN Append(switches, node)
                        ELSE [switches EXCEPT ![sw] = node]
        /\ breakTargets' = pushTarget(breakTargets, stmt, endbb, cleanupScopes)
        /\ continueTargets' = SwitchContinueTargets(continueTargets, stmt, endbb,
                                                    cleanupScopes)
        /\ frames' = Push([kind |-> "switch.body", stmt |-> stmt,
                           sw |-> sw, oldbb |-> oldbb,
                           endbb |-> endbb, defbb |-> defbb,
                           useSwitchInst |-> useSwitchInst(cases),
                           nextCase |-> 1, defaultDone |-> FALSE])
  /\ nstmts' = nstmts + SwitchSize(exps, hasDefault)
  /\ UNCHANGED <<cleanupScopes, catchScopes, retVars, fatal,
                 configVars, stringTables, labelVars>>

\* a switch over an integer
Switch(exps, hasDefault) == SwitchOn(exps, hasDefault, TRUE)

\* a switch over a string
StringSwitch(exps, hasDefault) == SwitchOn(exps, hasDefault, FALSE)

\* a slip: the placeholder of the gotos met before the case is left empty
LinkPlaceholder_Dropped(B, bodyBB, nbb) == B

\* "if (stmt->bodyBB && !stmt->bodyBB->getTerminator())
\*    llvm::BranchInst::Create(nbb, stmt->bodyBB)"
LinkPlaceholder(B, bodyBB, nbb) ==
  IF bodyBB # 0 /\ ~GetTerminator(B, bodyBB) THEN Emit(B, bodyBB, Br(nbb)) ELSE B

\* CaseStatement, up to the descent into its statement: the cases of a switch
\* are met in source order, in its body
CaseStatement ==
  /\ ~fatal /\ frames # <<>> /\ Top.kind = "switch.body"
  /\ Top.nextCase <= Len(switches[Top.sw].cases)
  /\ LET k == Top.nextCase
         cs == switches[Top.sw].cases[k]
         B1 == Create(blocks, "case")
         nbb == Len(B1)
         B2 == LinkPlaceholder(B1, cs.bodyBB, nbb)
         llvmIdx == IF cs.llvmIdx = 0
                    THEN isaConstantInt(cs.exp, switches[Top.sw].isintegral)
                    ELSE cs.llvmIdx
         B3 == IF ~scopereturned(B2, scopebb)
               THEN Emit(B2, scopebb, Br(nbb))
               ELSE B2
     IN /\ blocks' = B3
        /\ scopebb' = nbb
        /\ switches' = [switches EXCEPT ![Top.sw].cases[k].bodyBB = nbb,
                                        ![Top.sw].cases[k].llvmIdx = llvmIdx]
        /\ frames' = Append(Append(Pop, [Top EXCEPT !.nextCase = k + 1]),
                            [kind |-> "case.body"])
  /\ UNCHANGED <<cleanupScopes, catchScopes, targetVars, retVars, nstmts, fatal,
                 configVars, stringTables, labelVars>>

\* DefaultStatement, up to the descent into its statement
DefaultStatement ==
  /\ ~fatal /\ frames # <<>> /\ Top.kind = "switch.body"
  /\ switches[Top.sw].hasDefault /\ ~Top.defaultDone
  /\ LET bodyBB == switches[Top.sw].sdefault.bodyBB
         B1 == Create(blocks, "default")
         nbb == Len(B1)
         B2 == IF ~GetTerminator(B1, bodyBB)
               THEN Emit(B1, bodyBB, Br(nbb))
               ELSE B1
         B3 == IF ~scopereturned(B2, scopebb)
               THEN Emit(B2, scopebb, Br(nbb))
               ELSE B2
     IN /\ blocks' = B3
        /\ scopebb' = nbb
        /\ switches' = [switches EXCEPT ![Top.sw].sdefault.bodyBB = nbb]
        /\ frames' = Append(Append(Pop, [Top EXCEPT !.defaultDone = TRUE]),
                            [kind |-> "case.body"])
  /\ UNCHANGED <<cleanupScopes, catchScopes, targetVars, retVars, nstmts, fatal,
                 configVars, stringTables, labelVars>>

\* after the statement of a case or of the default
CaseEnd ==
  /\ ~fatal /\ frames # <<>> /\ Top.kind = "case.body"
  /\ frames' = Pop
  /\ UNCHANGED <<blocks, scopebb, cleanupScopes, catchScopes, targetVars,
                 retVars, nstmts, fatal, switchVars, labelVars>>

\* a slip: the scratch fields of the cases are left as they are
ResetCases_Kept(cases) == cases

\* a slip: the block of the default statement is kept
ResetDefault_Kept(sdefault) == sdefault

\* "if (stmt->sdefault) stmt->sdefault->bodyBB = nullptr"
ResetDefault(sdefault) == [sdefault EXCEPT !.bodyBB = 0]

\* "assert(cs->bodyBB == nullptr); assert(cs->llvmIdx == nullptr)" for each
\* case and "assert(stmt->sdefault->bodyBB == nullptr)", at the entry of the
\* handler of the switch statement node
EntryAssertions(node) ==
  /\ \A k \in 1..Len(node.cases) :
       node.cases[k].bodyBB = 0 /\ node.cases[k].llvmIdx = 0
  /\ node.sdefault.bodyBB = 0

\* "Reset backend variables to original state"
ResetCases(cases) ==
  [k \in 1..Len(cases) |-> [cases[k] EXCEPT !.bodyBB = 0, !.llvmIdx = 0]]

\* the dispatch, emitted into the block the switch was met in
Dispatch(B, cur, cases, defbb, endbb, table, prof) ==
  IF table
  THEN TableDispatch(B, cur, cases, defbb, endbb, prof)
  ELSE LinearDispatch(B, cur, cases, defbb, endbb, prof)

\* "if (!irs->scopereturned()) BranchInst::Create(endbb, irs->scopebb())"
SwitchBodyEnd(B, cur, endbb) ==
  IF ~scopereturned(B, cur) THEN Emit(B, cur, Br(endbb)) ELSE B

\* after the body: every case and the default have been met
SwitchEnd ==
  /\ ~fatal /\ frames # <<>> /\ Top.kind = "switch.body"
  /\ Top.nextCase > Len(switches[Top.sw].cases)
  /\ switches[Top.sw].hasDefault => Top.defaultDone
  /\ breakTargets' = popTarget(breakTargets)
  /\ IF Top.useSwitchInst /\ ~switches[Top.sw].isintegral
     THEN /\ stringTables' = Append(stringTables,
                                    StringTable(CaseArray(switches[Top.sw].cases)))
          /\ blocks' = StringDispatch(SwitchBodyEnd(blocks, scopebb, Top.endbb),
                                      Top.oldbb, switches[Top.sw].cases,
                                      Top.defbb, Top.endbb, genInstrProf,
                                      Len(stringTables) + 1, cleanupScopes,
                                      catchScopes)
     ELSE /\ stringTables' = stringTables
          /\ blocks' = Dispatch(SwitchBodyEnd(blocks, scopebb, Top.endbb),
                                Top.oldbb, switches[Top.sw].cases, Top.defbb,
                                Top.endbb, Top.useSwitchInst, genInstrProf)
  /\ scopebb' = Top.endbb
  /\ switches' = [switches EXCEPT ![Top.sw].cases = ResetCases(@),
                                  ![Top.sw].sdefault = ResetDefault(@)]
  /\ frames' = Pop
  /\ UNCHANGED <<cleanupScopes, catchScopes, continueTargets, retVars, nstmts,
                 fatal, configVars, labelVars>>

\* ------------------------------------ GotoCaseStatement, GotoDefaultStatement
\* the open switch statements a goto case or goto default may belong to
SwitchFrames ==
  {i \in 1..Len(frames) : i > FinallyFloor /\ frames[i].kind = "switch.body"}

\* goto case, to case k of the innermost enclosing switch
GotoCase(k) ==
  /\ ~fatal /\ SwitchFrames # {}
  /\ LET sw == frames[Innermost(SwitchFrames)].sw
         cs == switches[sw].cases[k]
         B1 == IF cs.bodyBB = 0 THEN Create(blocks, "goto_case") ELSE blocks
         bodyBB == IF cs.bodyBB = 0 THEN Len(B1) ELSE cs.bodyBB
         B2 == Emit(B1, scopebb, Br(bodyBB))
         after == StartBlock(B2, scopebb, "aftergotocase")
     IN /\ ~scopereturned(blocks, scopebb)
        /\ blocks' = after.blocks
        /\ scopebb' = after.scope
        /\ switches' = [switches EXCEPT ![sw].cases[k].bodyBB = bodyBB]
  /\ nstmts' = nstmts + 1
  /\ UNCHANGED <<cleanupScopes, catchScopes, targetVars, retVars, frames, fatal,
                 configVars, stringTables, labelVars>>

GotoCaseStatement ==
  /\ SwitchFrames # {}
  /\ \E k \in 1..Len(switches[frames[Innermost(SwitchFrames)].sw].cases) :
       GotoCase(k)

\* goto default, to the default of the innermost enclosing switch
GotoDefaultStatement ==
  /\ ~fatal /\ SwitchFrames # {}
  /\ LET sw == frames[Innermost(SwitchFrames)].sw
         B1 == Emit(blocks, scopebb, Br(switches[sw].sdefault.bodyBB))
         after == StartBlock(B1, scopebb, "aftergotodefault")
     IN /\ switches[sw].hasDefault
        /\ ~scopereturned(blocks, scopebb)
        /\ switches[sw].sdefault.bodyBB # 0
        /\ blocks' = after.blocks
        /\ scopebb' = after.scope
  /\ nstmts' = nstmts + 1
  /\ UNCHANGED <<cleanupScopes, catchScopes, targetVars, retVars, frames, fatal,
                 switchVars, labelVars>>

\* ------------------------------------------- LabelStatement, GotoStatement
\* the labels of a function
Labels == 1..MaxLabels

\* the label ident has been defined
LabelKnown(targets, ident) == \E i \in 1..Len(targets) : targets[i].ident = ident

LabelOf(targets, ident) ==
  targets[CHOOSE i \in 1..Len(targets) : targets[i].ident = ident]

\* the cleanup scopes `inner` are those of `outer` and, maybe, more inside
Encloses(outer, inner) ==
  Len(outer) <= Len(inner) /\ SubSeq(inner, 1, Len(outer)) = outer

\* the dangling branch that ends block bb is taken away, to be emitted anew
Unterminated(B, bb) ==
  [B EXCEPT ![bb].instrs = SubSeq(@, 1, Len(@) - 1)]

\* the forward references k.. to label ident are resolved: each leaves
\* through the cleanups it is inside of and the label is not, then enters the
\* label's block; a reference from outside a scope the label is in is an error
RECURSIVE ResolveJumps(_, _, _, _, _, _)
ResolveJumps(B, jumps, k, ident, labelBB, scopes) ==
  IF k > Len(jumps) THEN [blocks |-> B, error |-> FALSE]
  ELSE IF jumps[k].ident # ident
  THEN ResolveJumps(B, jumps, k + 1, ident, labelBB, scopes)
  ELSE IF ~Encloses(scopes, jumps[k].scopes)
  THEN [blocks |-> B, error |-> TRUE]
  ELSE ResolveJumps(runCleanups(Unterminated(B, jumps[k].sourceBlock),
                                jumps[k].sourceBlock, jumps[k].scopes,
                                Len(scopes), labelBB),
                    jumps, k + 1, ident, labelBB, scopes)

\* a slip: the label is not registered with the scope stack
RegisterLabel_Skipped(B, jumps, ident, labelBB, scopes) ==
  [blocks |-> B, error |-> FALSE]

\* "irs->func()->scopes->addLabelTarget(stmt->ident, labelBB)"
RegisterLabel(B, jumps, ident, labelBB, scopes) ==
  ResolveJumps(B, jumps, 1, ident, labelBB, scopes)

\* LabelStatement, outside inline assembly
Label(ident) ==
  /\ ~fatal /\ ~InFinally
  /\ ~LabelKnown(labelTargets, ident)
  /\ LET B1 == Create(blocks, "label")
         labelBB == Len(B1)
         r == RegisterLabel(B1, gotoJumps, ident, labelBB, cleanupScopes)
         B2 == IF ~scopereturned(r.blocks, scopebb)
               THEN Emit(r.blocks, scopebb, Br(labelBB))
               ELSE r.blocks
     IN /\ labelTargets' = Append(labelTargets,
                                  [ident |-> ident, targetBlock |-> labelBB,
                                   scopes |-> cleanupScopes])
        /\ gotoJumps' = SelectSeq(gotoJumps, LAMBDA j : j.ident # ident)
        /\ fatal' = r.error
        /\ blocks' = B2
        /\ scopebb' = labelBB
  /\ nstmts' = nstmts + 1
  /\ UNCHANGED <<cleanupScopes, catchScopes, targetVars, retVars, frames,
                 switchVars>>

LabelStatement == \E ident \in Labels : Label(ident)

\* DtoGoto: to a label already defined, through the cleanups the goto is
\* inside of and the label is not; else the branch is left dangling and
\* recorded. A goto into a scope with cleanups it is not in is an error.
DtoGoto(B, cur, ident, targets, jumps, scopes) ==
  IF LabelKnown(targets, ident)
  THEN IF Encloses(LabelOf(targets, ident).scopes, scopes)
       THEN [blocks |-> runCleanups(B, cur, scopes,
                                    Len(LabelOf(targets, ident).scopes),
                                    LabelOf(targets, ident).targetBlock),
             jumps |-> jumps, error |-> FALSE]
       ELSE [blocks |-> B, jumps |-> jumps, error |-> TRUE]
  ELSE [blocks |-> Emit(B, cur, Br(0)),
        jumps |-> Append(jumps, [ident |-> ident, sourceBlock |-> cur,
                                 scopes |-> scopes]),
        error |-> FALSE]

\* a slip: the handler branches to the label's block itself, as the handlers
\* of goto case and goto default do
GotoLabel_Direct(B, cur, ident, targets, jumps, scopes) ==
  IF LabelKnown(targets, ident)
  THEN [blocks |-> Emit(B, cur, Br(LabelOf(targets, ident).targetBlock)),
        jumps |-> jumps, error |-> FALSE]
  ELSE [blocks |-> Emit(B, cur, Br(0)),
        jumps |-> Append(jumps, [ident |-> ident, sourceBlock |-> cur,
                                 scopes |-> <<>>]),
        error |-> FALSE]

\* "DtoGoto(stmt->loc, stmt->label)"
GotoLabel(B, cur, ident, targets, jumps, scopes) ==
  DtoGoto(B, cur, ident, targets, jumps, scopes)

Goto(ident) ==
  /\ ~fatal /\ ~InFinally
  /\ LET r == GotoLabel(blocks, scopebb, ident, labelTargets, gotoJumps,
                        cleanupScopes)
         after == StartBlock(r.blocks, scopebb, "aftergoto")
     IN IF r.error
        THEN /\ fatal' = TRUE
             /\ UNCHANGED <<blocks, scopebb, gotoJumps>>
        ELSE /\ blocks' = after.blocks
             /\ scopebb' = after.scope
             /\ gotoJumps' = r.jumps
             /\ fatal' = fatal
  /\ nstmts' = nstmts + 1
  /\ UNCHANGED <<cleanupScopes, catchScopes, targetVars, retVars, frames,
                 switchVars, labelTargets>>

GotoStatement == \E ident \in Labels : Goto(ident)

\* ------------------------------ statements without a lowering, ImportStatement
\* the statement kinds the visitor has no lowering for: "Statement" stands
\* for every kind that has no visit function of its own
UnsupportedKinds == {"OnScopeStatement", "PragmaStatement", "Statement"}

\* a slip: a pragma statement is passed over
fatal_PragmaIgnored(kind) == kind \in {"OnScopeStatement", "Statement"}

\* "stmt->error(...); fatal();" in the three visit functions
fatal_(kind) == kind \in UnsupportedKinds

\* visit(OnScopeStatement*), visit(PragmaStatement*), visit(Statement*)
Unsupported(kind) ==
  /\ ~fatal
  /\ fatal' = fatal_(kind)
  /\ nstmts' = nstmts + 1
  /\ UNCHANGED <<blocks, scopebb, cleanupScopes, catchScopes, targetVars,
                 retVars, frames, switchVars, labelVars>>

UnsupportedStatement == \E kind \in UnsupportedKinds : Unsupported(kind)

\* a slip: the import is lowered like an expression statement
visitImport_Emits(B, cur) == Emit(B, cur, Instr("exp", 0, <<>>, <<>>))

\* "// Empty."
visitImport(B, cur) == B

\* visit(ImportStatement*)
ImportStatement ==
  /\ ~fatal
  /\ blocks' = visitImport(blocks, scopebb)
  /\ nstmts' = nstmts + 1
  /\ UNCHANGED <<scopebb, cleanupScopes, catchScopes, targetVars, retVars,
                 frames, fatal, switchVars, labelVars>>

\* --------------------------------------------------------- specifications
\* functions made of expression statements, returns and try/finally
NextReturn ==
  \/ /\ nstmts < MaxReturnStmts
     /\ \/ ExpStatement
        \/ ReturnStatement
        \/ TryFinallyStatement
  \/ TryFinallyInlineEnd
  \/ TryFinallyBody
  \/ TryFinallyEnd

\* no statement of these functions reads the instrumentation flag
InitPlain == Init /\ ~genInstrProf /\ ~useMSVCEH

SpecReturn == InitPlain /\ [][NextReturn]_vars

\* functions made of loops, jumps out of them, returns, throws, try/finally
\* and try/catch with a catch of the second class
NextLoop ==
  \/ /\ nstmts < MaxLoopStmts
     /\ \/ ReturnStatement
        \/ TryFinally(TRUE, TRUE)
        \/ WhileStatement
        \/ DoStatement
        \/ ForStatement
        \/ BreakStatement
        \/ ContinueStatement
        \/ ThrowStatement
        \/ TryCatch(<<2>>)
  \/ TryFinallyBody
  \/ TryFinallyEnd
  \/ TryCatchHandlerEnd
  \/ TryCatchEnd
  \/ WhileEnd
  \/ DoEnd
  \/ ForEnd

SpecLoop == InitPlain /\ [][NextLoop]_vars

\* functions made of try/catch, try/finally and throws
NextCatch ==
  \/ /\ nstmts < MaxCatchStmts
     /\ \/ ThrowStatement
        \/ TryCatchStatement
        \/ TryFinally(TRUE, TRUE)
  \/ TryCatchHandlerEnd
  \/ TryCatchEnd
  \/ TryFinallyBody
  \/ TryFinallyEnd

\* no statement of these functions reads the return type
InitVoid == InitPlain /\ ~hasRetVal

SpecCatch == InitVoid /\ [][NextCatch]_vars

\* functions made of foreach statements over arrays and over ranges, not
\* nested, of expression statements, breaks and continues
NextForeach ==
  \/ /\ nstmts < MaxForeachStmts
     /\ \/ ExpStatement
        \/ BreakStatement
        \/ ContinueStatement
        \/ frames = <<>> /\ ForeachStatement
        \/ frames = <<>> /\ ForeachRangeStatement
  \/ ForeachEnd
  \/ ForeachRangeEnd

SpecForeach == InitVoid /\ [][NextForeach]_vars

\* functions with imports and statements that have no lowering, among
\* expression statements, labels, while loops, try/finally and try/catch
NextMisc ==
  \/ /\ nstmts < MaxMiscStmts
     /\ \/ ExpStatement
        \/ ImportStatement
        \/ UnsupportedStatement
        \/ LabelStatement
        \/ WhileStatement
        \/ TryFinally(TRUE, TRUE)
        \/ TryCatch(<<2>>)
  \/ WhileEnd
  \/ TryFinallyBody
  \/ TryFinallyEnd
  \/ TryCatchHandlerEnd
  \/ TryCatchEnd

SpecMisc == InitVoid /\ [][NextMisc]_vars

\* functions made of switches, breaks and expression statements
NextSwitch ==
  \/ /\ nstmts < MaxSwitchStmts
     /\ \/ ExpStatement
        \/ BreakStatement
  \/ \E exps \in CaseLists, hasDefault \in BOOLEAN :
       /\ nstmts + SwitchSize(exps, hasDefault) <= MaxSwitchStmts
       /\ Switch(exps, hasDefault)
  \/ CaseStatement
  \/ DefaultStatement
  \/ CaseEnd
  \/ SwitchEnd

\* no statement of these functions reads the return type
InitSwitch == Init /\ ~hasRetVal /\ ~useMSVCEH

SpecSwitch == InitSwitch /\ [][NextSwitch]_vars

\* functions made of string switches, breaks and expression statements
NextString ==
  \/ /\ nstmts < MaxStringStmts
     /\ \/ ExpStatement
        \/ BreakStatement
  \/ \E exps \in StringCaseLists, hasDefault \in BOOLEAN :
       /\ nstmts + SwitchSize(exps, hasDefault) <= MaxStringStmts
       /\ StringSwitch(exps, hasDefault)
  \/ CaseStatement
  \/ DefaultStatement
  \/ CaseEnd
  \/ SwitchEnd

SpecString == InitSwitch /\ [][NextString]_vars

\* functions made of switches with every kind of label, breaks and
\* expression statements
NextStrategy ==
  \/ /\ nstmts < MaxStrategyStmts
     /\ \/ ExpStatement
        \/ BreakStatement
  \/ \E exps \in VarCaseLists, hasDefault \in BOOLEAN :
       /\ nstmts + SwitchSize(exps, hasDefault) <= MaxStrategyStmts
       /\ Switch(exps, hasDefault)
  \/ CaseStatement
  \/ DefaultStatement
  \/ CaseEnd
  \/ SwitchEnd

SpecStrategy == InitSwitch /\ [][NextStrategy]_vars

\* functions made of switches with a label read at run time, breaks and
\* expression statements
NextLinear ==
  \/ /\ nstmts < MaxLinearStmts
     /\ \/ ExpStatement
        \/ BreakStatement
  \/ \E exps \in LinearCaseLists, hasDefault \in BOOLEAN :
       /\ nstmts + SwitchSize(exps, hasDefault) <= MaxLinearStmts
       /\ Switch(exps, hasDefault)
  \/ CaseStatement
  \/ DefaultStatement
  \/ CaseEnd
  \/ SwitchEnd

SpecLinear == InitSwitch /\ [][NextLinear]_vars

\* functions made of unrolled loops, breaks, continues, expression
\* statements and try/finally
NextUnrolled ==
  \/ /\ nstmts < MaxUnrolledStmts
     /\ \/ ExpStatement
        \/ BreakStatement
        \/ ContinueStatement
        \/ UnrolledLoopStatement
        \/ TryFinally(TRUE, TRUE)
  \/ UnrolledNext
  \/ UnrolledEnd
  \/ TryFinallyBody
  \/ TryFinallyEnd

SpecUnrolled == InitVoid /\ [][NextUnrolled]_vars

\* functions made of labels, gotos, try/finally and expression statements
NextLabel ==
  \/ /\ nstmts < MaxLabelStmts
     /\ \/ ExpStatement
        \/ LabelStatement
        \/ GotoStatement
        \/ TryFinally(TRUE, TRUE)
  \/ TryFinallyBody
  \/ TryFinallyEnd

SpecLabel == InitVoid /\ [][NextLabel]_vars

\* ------------------------------------------- lowering the same tree twice
\* The trees lowered twice: one switch over an integer. Its body is a list
\* of items, each a case or the default with one statement: an expression
\* statement, a goto case k, or a break that is (guarded) the try body of a
\* try/finally with an empty finally body. The cases have the
\* labels 1, 2, ... in source order, all literals, or the first a variable
\* read at run time.
TwiceStmts(n) ==
  {[kind |-> "exp", k |-> 0, guarded |-> FALSE],
   [kind |-> "break", k |-> 0, guarded |-> TRUE]}
    \cup {[kind |-> "gotocase", k |-> k, guarded |-> FALSE] : k \in 1..n}

TwiceExps(n) ==
  {[k \in 1..n |-> CaseExp(k, TRUE)], [k \in 1..n |-> CaseExp(k, k # 1)]}

TwiceItems(n) ==
  {items \in UNION {[1..m -> [isDefault : BOOLEAN, stmt : TwiceStmts(n)]] :
                      m \in {n, n + 1}} :
     /\ Cardinality({i \in 1..Len(items) : ~items[i].isDefault}) = n
     /\ Cardinality({i \in 1..Len(items) : items[i].isDefault}) <= 1}

Trees ==
  UNION {[exps : TwiceExps(n), items : TwiceItems(n)] : n \in 1..MaxTwiceCases}

\* "stmt->sdefault"
HasDefault(tree) == \E i \in 1..Len(tree.items) : tree.items[i].isDefault

\* the statements of item stmt: itself and the try/finally around it
StmtSize(stmt) == IF stmt.guarded THEN 2 ELSE 1

\* the statements visited when the statement of item i is met
RECURSIVE StartOf(_)
StartOf(i) ==
  IF i = 1 THEN SwitchSize(ast.exps, HasDefault(ast))
  ELSE StartOf(i - 1) + StmtSize(ast.items[i - 1].stmt)

\* the items of the switch met so far
Begun == frames[1].nextCase - 1 + IF frames[1].defaultDone THEN 1 ELSE 0

\* the step of the traversal of ast that is due
Due ==
  IF frames = <<>> THEN IF nstmts = 0 THEN "switch" ELSE "done"
  ELSE IF Top.kind = "switch.body"
  THEN IF Begun = Len(ast.items) THEN "switchend"
       ELSE IF ast.items[Begun + 1].isDefault THEN "default" ELSE "case"
  ELSE LET stmt == ast.items[Begun].stmt
           done == nstmts - StartOf(Begun)
       IN IF Top.kind = "case.body"
          THEN IF done > 0 THEN "caseend"
               ELSE IF stmt.guarded THEN "try" ELSE stmt.kind
          ELSE IF Top.kind = "tryfinally.finalbody" THEN "trybody"
          ELSE IF done = 1 THEN stmt.kind ELSE "tryend"

\* Statement_toIR is called again for the same tree: a new visitor over a
\* new IRState; the statements of the tree are those of the first call
Statement_toIR ==
  /\ ~fatal /\ pass = 1
  /\ first' = blocks
  /\ pass' = 2
  /\ blocks' = <<[name |-> "entry", instrs |-> <<>>]>>
  /\ scopebb' = 1
  /\ allocas' = <<>>
  /\ cleanupScopes' = <<>>
  /\ catchScopes' = <<>>
  /\ stringTables' = <<>>
  /\ labelTargets' = <<>>
  /\ gotoJumps' = <<>>
  /\ retBlock' = 0
  /\ retValSlot' = 0
  /\ continueTargets' = <<>>
  /\ breakTargets' = <<>>
  /\ frames' = <<>>
  /\ nstmts' = 0
  /\ UNCHANGED <<switches, genInstrProf, useMSVCEH, hasRetVal, fatal, ast,
                 exeVars>>

\* the traversal of ast, once and then once more
NextTwice ==
  \/ Due = "switch" /\ Switch(ast.exps, HasDefault(ast))
  \/ Due = "case" /\ CaseStatement
  \/ Due = "default" /\ DefaultStatement
  \/ Due = "exp" /\ ExpStatement
  \/ Due = "break" /\ Break(FALSE, 0)
  \/ Due = "gotocase" /\ GotoCase(ast.items[Begun].stmt.k)
  \/ Due = "try" /\ TryFinally(TRUE, TRUE)
  \/ Due = "trybody" /\ TryFinallyBody
  \/ Due = "tryend" /\ TryFinallyEnd
  \/ Due = "caseend" /\ CaseEnd
  \/ Due = "switchend" /\ SwitchEnd
  \/ Due = "done" /\ Statement_toIR

InitTwice ==
  /\ blocks = <<[name |-> "entry", instrs |-> <<>>]>>
  /\ scopebb = 1
  /\ allocas = <<>>
  /\ cleanupScopes = <<>>
  /\ catchScopes = <<>>
  /\ switches = <<>>
  /\ genInstrProf \in BOOLEAN
  /\ useMSVCEH = FALSE
  /\ stringTables = <<>>
  /\ labelTargets = <<>>
  /\ gotoJumps = <<>>
  /\ retBlock = 0
  /\ retValSlot = 0
  /\ hasRetVal = FALSE
  /\ continueTargets = <<>>
  /\ breakTargets = <<>>
  /\ frames = <<>>
  /\ nstmts = 0
  /\ fatal = FALSE
  /\ ast \in Trees
  /\ pass = 1
  /\ first = <<>>
  /\ exePath = <<>>
  /\ exeCall = "none"
  /\ exeResult = <<>>
  /\ exeFailed = FALSE

SpecTwice == InitTwice /\ [][NextTwice]_vars

\* functions made of try/catch and throws, under either exception strategy
\* the catch lists of the try/catch statements met there: one catch, a
\* derived class before its base, two unrelated classes
EHCatchLists == {<<1>>, <<2>>, <<2, 1>>, <<3, 2>>}

TryCatchStatementEH == \E catches \in EHCatchLists : TryCatch(catches)

NextEH ==
  \/ /\ nstmts < MaxEHStmts
     /\ \/ ThrowStatement
        \/ TryCatchStatementEH
  \/ TryCatchHandlerEnd
  \/ TryCatchEnd

InitEH == Init /\ ~genInstrProf /\ ~hasRetVal

SpecEH == InitEH /\ [][NextEH]_vars

\* functions made of a switch over one constant with a default, try/finally
\* and goto case and goto default
NextGoto ==
  \/ /\ nstmts < MaxGotoStmts
     /\ \/ TryFinally(TRUE, TRUE)
        \/ GotoCaseStatement
        \/ GotoDefaultStatement
  \/ /\ nstmts + SwitchSize(<<CaseExp(1, TRUE)>>, TRUE) <= MaxGotoStmts
     /\ Switch(<<CaseExp(1, TRUE)>>, TRUE)
  \/ TryFinallyBody
  \/ TryFinallyEnd
  \/ CaseStatement
  \/ DefaultStatement
  \/ CaseEnd
  \/ SwitchEnd

SpecGoto == InitVoid /\ [][NextGoto]_vars

\* functions made of for loops with any of their parts, of expression
\* statements, breaks and continues
NextFor ==
  \/ /\ nstmts < MaxForStmts
     /\ \/ ExpStatement
        \/ BreakStatement
        \/ ContinueStatement
        \/ ForStatementParts
  \/ ForEnd

SpecFor == InitVoid /\ [][NextFor]_vars

\* functions made of do-while loops, of expression statements, breaks and
\* continues
NextDo ==
  \/ /\ nstmts < MaxDoStmts
     /\ \/ ExpStatement
        \/ BreakStatement
        \/ ContinueStatement
        \/ DoStatement
  \/ DoEnd

SpecDo == InitVoid /\ [][NextDo]_vars

\* functions made of while loops and switches with one case, nested, with
\* breaks and continues
NextNested ==
  \/ /\ nstmts < MaxNestedStmts
     /\ \/ BreakStatement
        \/ ContinueStatement
        \/ WhileStatement
  \/ /\ nstmts + SwitchSize(<<CaseExp(1, TRUE)>>, FALSE) <= MaxNestedStmts
     /\ Switch(<<CaseExp(1, TRUE)>>, FALSE)
  \/ WhileEnd
  \/ CaseStatement
  \/ CaseEnd
  \/ SwitchEnd

SpecNested == InitVoid /\ [][NextNested]_vars

\* ------------------------------------------------------------- exe_path.cpp
\* A path is the sequence of its components, the empty sequence the empty
\* string.
MaxPathLen == 3
PathComponents == {1, 2}
Paths == UNION {[1..n -> PathComponents] : n \in 0..MaxPathLen}

\* llvm::sys::path::parent_path: the path without its last component
parent_path(path) ==
  IF path = <<>> THEN <<>> ELSE SubSeq(path, 1, Len(path) - 1)

\* llvm::sys::path::append(r, suffix)
append(r, suffix) == Append(r, suffix)

\* what the statements' variables are, none of which exe_path touches
irVars == <<blocks, scopebb, cleanupScopes, catchScopes, targetVars, retVars,
            switches, genInstrProf, useMSVCEH, passVars, stringTables,
            labelVars, frames, nstmts, fatal>>

\* a failed assert: the process aborts, nothing is stored or returned
AssertFailed(call) ==
  /\ exeCall' = call
  /\ exeFailed' = TRUE
  /\ UNCHANGED <<exePath, exeResult, irVars>>

\* a call that returns result
Returns(call, result) ==
  /\ exeCall' = call
  /\ exeResult' = result
  /\ UNCHANGED <<exePath, exeFailed, irVars>>

\* a slip: initialize does not look at the stored path
initialize_assert_Missing(path) == TRUE

\* "assert(exePath.empty())"
initialize_assert(path) == path = <<>>

\* exe_path::initialize(arg0), where llvm::sys::fs::getMainExecutable
\* returns main (the empty string when it cannot tell)
initialize(main) ==
  /\ ~exeFailed
  /\ IF ~initialize_assert(exePath)
     THEN AssertFailed("initialize")
     ELSE /\ exePath' = main
          /\ exeCall' = "initialize"
          /\ UNCHANGED <<exeResult, exeFailed, irVars>>

\* exe_path::getExePath()
getExePath ==
  /\ ~exeFailed
  /\ IF exePath = <<>>
     THEN AssertFailed("getExePath")
     ELSE Returns("getExePath", exePath)

\* exe_path::getBinDir()
getBinDir ==
  /\ ~exeFailed
  /\ IF exePath = <<>>
     THEN AssertFailed("getBinDir")
     ELSE Returns("getBinDir", parent_path(exePath))

\* exe_path::getBaseDir(): getBinDir(), then "assert(!binDir.empty())"
getBaseDir ==
  /\ ~exeFailed
  /\ IF exePath = <<>> \/ parent_path(exePath) = <<>>
     THEN AssertFailed("getBaseDir")
     ELSE Returns("getBaseDir", parent_path(parent_path(exePath)))

\* exe_path::prependBinDir(suffix)
prependBinDir(suffix) ==
  /\ ~exeFailed
  /\ IF exePath = <<>>
     THEN AssertFailed("prependBinDir")
     ELSE Returns("prependBinDir", append(parent_path(exePath), suffix))

Initialize == \E main \in Paths : initialize(main)
PrependBinDir == \E suffix \in PathComponents : prependBinDir(suffix)

\* any sequence of calls of the functions of exe_path
NextExe ==
  \/ Initialize
  \/ getExePath
  \/ getBinDir
  \/ getBaseDir
  \/ PrependBinDir

SpecExe == InitVoid /\ [][NextExe]_vars

\* functions made of switches with two cases, not nested, of expression
\* statements and of goto case in the cases
NextGotoCase ==
  \/ /\ nstmts < MaxGotoCaseStmts
     /\ \/ ExpStatement
        \/ frames # <<>> /\ Top.kind = "case.body" /\ GotoCaseStatement
  \/ \E exps \in TwiceExps(2) :
       /\ frames = <<>>
       /\ nstmts + SwitchSize(exps, FALSE) <= MaxGotoCaseStmts
       /\ Switch(exps, FALSE)
  \/ CaseStatement
  \/ CaseEnd
  \/ SwitchEnd

SpecGotoCase == InitVoid /\ [][NextGotoCase]_vars

\* functions made of every statement that registers a jump target: the six
\* loops and the switch, nested, with breaks, continues and expression
\* statements
NextTargets ==
  \/ /\ nstmts < MaxTargetStmts
     /\ \/ ExpStatement
        \/ BreakStatement
        \/ ContinueStatement
        \/ WhileStatement
        \/ DoStatement
        \/ For(TRUE, 0)
        \/ Foreach("TOKforeach", SizeBits)
        \/ ForeachRange("TOKforeach_reverse", TRUE)
        \/ UnrolledLoop(2)
  \/ /\ nstmts + SwitchSize(<<CaseExp(1, TRUE)>>, FALSE) <= MaxTargetStmts
     /\ Switch(<<CaseExp(1, TRUE)>>, FALSE)
  \/ WhileEnd
  \/ DoEnd
  \/ ForEnd
  \/ ForeachEnd
  \/ ForeachRangeEnd
  \/ UnrolledNext
  \/ UnrolledEnd
  \/ CaseStatement
  \/ CaseEnd
  \/ SwitchEnd

SpecTargets == InitVoid /\ [][NextTargets]_vars

\* functions made of every statement that ends a block, of the loops, of
\* try/finally, of try/catch, of labels and of small switches
Next ==
  \/ /\ nstmts < MaxStmts
     /\ \/ ExpStatement
        \/ ReturnStatement
        \/ TryFinally(TRUE, TRUE)
        \/ WhileStatement
        \/ DoStatement
        \/ For(TRUE, 0)
        \/ BreakStatement
        \/ ContinueStatement
        \/ ThrowStatement
        \/ TryCatch(<<2>>)
        \/ GotoCaseStatement
        \/ GotoDefaultStatement
        \/ LabelStatement
        \/ GotoStatement
  \/ \E exps \in {<<>>, <<CaseExp(1, TRUE)>>}, hasDefault \in BOOLEAN :
       /\ nstmts + SwitchSize(exps, hasDefault) <= MaxStmts
       /\ Switch(exps, hasDefault)
  \/ TryFinallyBody
  \/ TryFinallyEnd
  \/ WhileEnd
  \/ DoEnd
  \/ ForEnd
  \/ TryCatchHandlerEnd
  \/ TryCatchEnd
  \/ CaseStatement
  \/ DefaultStatement
  \/ CaseEnd
  \/ SwitchEnd

Spec == InitPlain /\ [][Next]_vars

\* ------------------------------------------------------- reading the graph
BlockIds(B) == 1..Len(B)

\* the blocks with an instruction that names block b as a successor
Predecessors(B, b) ==
  {bb \in BlockIds(B) :
     \E q \in 1..Len(B[bb].instrs) :
       \E r \in 1..Len(B[bb].instrs[q].succ) : B[bb].instrs[q].succ[r] = b}

\* the numbers n of the instructions op of block bb, in order
Operands(B, bb, op) ==
  LET sel == SelectSeq(B[bb].instrs, LAMBDA i : i.op = op)
  IN [k \in 1..Len(sel) |-> sel[k].n]

HasInstr(B, bb, op) == \E k \in 1..Len(B[bb].instrs) : B[bb].instrs[k].op = op

\* the last instruction of block bb ("none" for an empty block)
LastInstr(B, bb) ==
  IF Len(B[bb].instrs) = 0
  THEN Instr("none", 0, <<>>, <<>>)
  ELSE B[bb].instrs[Len(B[bb].instrs)]

\* block bb ends in the branch of a goto whose label is not defined yet
Dangling(B, bb) == LastInstr(B, bb) = Br(0)

NumTerminators(B, bb) ==
  Cardinality({k \in 1..Len(B[bb].instrs) : B[bb].instrs[k].op \in Terminators})

NumRets(B) ==
  Cardinality({<<bb, k>> \in BlockIds(B) \X (1..20) :
                 /\ k <= Len(B[bb].instrs)
                 /\ B[bb].instrs[k].op \in {"ret", "retvoid"}})

\* what runs after the branch that ends block bb: the cleanups of the chain
\* of cleanup blocks it enters, in order, and the first other block reached
RECURSIVE ChainFrom(_, _, _)
ChainFrom(B, bb, fuel) ==
  IF B[bb].name # "cleanup" \/ fuel = 0 \/ LastInstr(B, bb).op # "br"
  THEN [run |-> IF B[bb].name = "cleanup" THEN Operands(B, bb, "cleanup") ELSE <<>>,
        stop |-> bb]
  ELSE LET rest == ChainFrom(B, LastInstr(B, bb).succ[1], fuel - 1)
       IN [run |-> Operands(B, bb, "cleanup") \o rest.run, stop |-> rest.stop]

ExitPath(B, bb) ==
  IF LastInstr(B, bb).op = "br"
  THEN ChainFrom(B, LastInstr(B, bb).succ[1], Len(B))
  ELSE [run |-> <<>>, stop |-> 0]

\* the begin blocks of the pending cleanups above depth d, innermost first
PendingAbove(scopes, d) ==
  [i \in 1..(Len(scopes) - d) |-> scopes[Len(scopes) + 1 - i].beginBlock]

\* ------------------------------------------------------------------ claims

\* C1: a return lowered while N >= 1 cleanups are pending leads, on the path
\* from the returning block, through exactly those N cleanups, each once,
\* innermost first, and only then to the function's return instruction.
C1_ReturnRunsPendingCleanups ==
  [][(ReturnStatement /\ Len(cleanupScopes) >= 1) =>
       LET p == ExitPath(blocks', scopebb)
       IN /\ p.run = PendingAbove(cleanupScopes, 0)
          /\ p.stop = retBlock'
          /\ NumTerminators(blocks', retBlock') = 1
          /\ LastInstr(blocks', retBlock').op \in {"ret", "retvoid"}]_vars

\* C1 witness: some block reaches the return block through two cleanups
C1_Witness ==
  /\ retBlock # 0
  /\ \E bb \in BlockIds(blocks) :
       /\ ExitPath(blocks, bb).stop = retBlock
       /\ Len(ExitPath(blocks, bb).run) >= 2

\* C7 as stated: once the shared return block exists every return stores to
\* the slot and branches to it, emitting no return instruction of its own, and
\* a return instruction is emitted only with no shared block and no cleanups.
C7_Original ==
  [][ReturnStatement =>
       /\ retBlock # 0 =>
            /\ NumRets(blocks') = NumRets(blocks)
            /\ ExitPath(blocks', scopebb).stop = retBlock
       /\ LastInstr(blocks', scopebb).op \in {"ret", "retvoid"}
            => retBlock = 0 /\ Len(cleanupScopes) = 0]_vars

\* C7 amended: with cleanups pending a return stores its value to the slot and
\* branches (through the cleanups) to the shared return block, which it
\* creates with its one return instruction when there is none yet; with no
\* cleanups pending it emits its own return instruction into the current
\* block, whether or not the shared return block exists.
C7_ReturnPath ==
  [][ReturnStatement =>
       LET last == LastInstr(blocks', scopebb)
       IN IF Len(cleanupScopes) # 0
          THEN /\ last.op = "br"
               /\ ExitPath(blocks', scopebb).stop = retBlock'
               /\ retBlock' # 0
               /\ retBlock # 0 => /\ retBlock' = retBlock
                                  /\ NumRets(blocks') = NumRets(blocks)
               /\ retBlock = 0 => NumRets(blocks') = NumRets(blocks) + 1
               /\ hasRetVal => /\ retValSlot' # 0
                               /\ Operands(blocks', scopebb, "store")
                                    = <<retValSlot'>>
          ELSE /\ last.op = IF hasRetVal THEN "ret" ELSE "retvoid"
               /\ last.n = 0
               /\ NumRets(blocks') = NumRets(blocks) + 1
               /\ ~HasInstr(blocks', scopebb, "store")
               /\ retBlock' = retBlock]_vars

\* C7 witness: a return instruction emitted directly although the shared
\* return block exists
C7_Witness ==
  /\ retBlock # 0
  /\ \E bb \in BlockIds(blocks) :
       /\ bb > retBlock
       /\ HasInstr(blocks, bb, "ret") \/ HasInstr(blocks, bb, "retvoid")

\* C8: at most one shared return block and one return slot exist; the block
\* holds exactly one return instruction, which for a value-returning function
\* returns the value loaded from the slot every cleanup-requiring return
\* stored into.
C8_SharedReturnBlock ==
  LET rbs == {bb \in BlockIds(blocks) : blocks[bb].name = "return"}
      slots == {k \in 1..Len(allocas) : allocas[k] = "return.slot"}
  IN /\ rbs = IF retBlock = 0 THEN {} ELSE {retBlock}
     /\ slots = IF retValSlot = 0 THEN {} ELSE {retValSlot}
     /\ retBlock # 0 =>
          /\ hasRetVal <=> retValSlot # 0
          /\ blocks[retBlock].instrs =
               IF hasRetVal
               THEN <<Instr("load", retValSlot, <<>>, <<>>),
                      Instr("ret", retValSlot, <<>>, <<>>)>>
               ELSE <<Instr("retvoid", 0, <<>>, <<>>)>>
     /\ \A bb \in BlockIds(blocks) :
          /\ \A k \in 1..Len(Operands(blocks, bb, "store")) :
               Operands(blocks, bb, "store")[k] = retValSlot
          /\ (retBlock # 0 /\ hasRetVal /\ blocks[bb].name # "cleanup"
              /\ ExitPath(blocks, bb).stop = retBlock)
             => Operands(blocks, bb, "store") = <<retValSlot>>

\* C8 witness: two returns stored to the slot of a value-returning function
C8_Witness ==
  /\ hasRetVal /\ retBlock # 0
  /\ Cardinality({bb \in BlockIds(blocks) : HasInstr(blocks, bb, "store")}) >= 2

\* -------------------------------------------------------------- unwinding
\* What an exception of class T does at a call: nothing is run and nothing
\* catches it at a plain call; at an invoke it goes through the landing pad,
\* running each cleanup met and stopping at the first catch that matches.
\* handler is 0 when the exception leaves the function.
RECURSIVE Unwinding(_, _, _, _)
Unwinding(instr, k, T, run) ==
  IF instr.op # "invoke" \/ k > Len(instr.succ)
  THEN [run |-> run, handler |-> 0]
  ELSE IF instr.keys[k] = 0
  THEN Unwinding(instr, k + 1, T, Append(run, instr.succ[k]))
  ELSE IF Matches(T, instr.keys[k])
  THEN [run |-> run, handler |-> instr.succ[k]]
  ELSE Unwinding(instr, k + 1, T, run)

\* the call a throw statement has just emitted in block bb
ThrowCall(B, bb) == B[bb].instrs[Len(B[bb].instrs) - 1]

\* the first catch, in source order, that catches class T; 0 when none does
FirstMatch(catches, T) ==
  LET m == {i \in 1..Len(catches) : Matches(T, catches[i])}
  IN IF m = {} THEN 0 ELSE CHOOSE i \in m : \A j \in m : i <= j

\* the block holding the body of the i-th catch, in source order, of the
\* try/catch of frame f
HandlerOf(f, i) ==
  LET k == CHOOSE k \in 1..Len(f.catchBlocks) : f.catchBlocks[k].index = i
  IN f.catchBlocks[k].BB

\* the open try/catch statements whose try body is being visited
TryBodies == {i \in 1..Len(frames) : frames[i].kind = "trycatch.body"}

\* the innermost of them with a catch for class T; 0 when there is none
CatchingFrame(T) ==
  LET m == {i \in TryBodies : FirstMatch(frames[i].catches, T) # 0}
  IN IF m = {} THEN 0 ELSE Innermost(m)

\* C5: a throw in the body of a try/catch reaches the body of the first
\* catch, in source order, whose class the exception is an instance of; when
\* no catch of the statement matches, the enclosing try/catch statements are
\* tried in the same way and the exception leaves the function when none of
\* them matches either. The catches are pushed on the catch stack in reverse
\* source order.
C5_FirstMatchingCatch ==
  [][ /\ ThrowStatement =>
           \A T \in ClassIds :
             LET f == CatchingFrame(T)
                 u == Unwinding(ThrowCall(blocks', scopebb), 1, T, <<>>)
             IN u.handler =
                  IF f = 0 THEN 0
                  ELSE HandlerOf(frames[f], FirstMatch(frames[f].catches, T))
      /\ (TryCatchHandlerEnd /\ Top.it = Len(Top.catches)) =>
           /\ Len(catchScopes') = Len(catchScopes) + Len(Top.catches)
           /\ \A k \in 1..Len(Top.catches) :
                catchScopes'[Len(catchScopes) + k].classInfoPtr =
                  Top.catches[Len(Top.catches) + 1 - k]
    ]_vars

\* a throw of the second class in the body of a try with catches for the
\* second class and then for the root has been lowered
C5_Witness ==
  /\ TryBodies # {}
  /\ frames[Innermost(TryBodies)].catches = <<2, 1>>
  /\ \E bb \in BlockIds(blocks) :
       /\ Len(blocks[bb].instrs) >= 2
       /\ LastInstr(blocks, bb).op = "unreachable"
       /\ ThrowCall(blocks, bb).op = "invoke"
       /\ Unwinding(ThrowCall(blocks, bb), 1, 2, <<>>).handler =
            HandlerOf(frames[Innermost(TryBodies)], 1)
       /\ Unwinding(ThrowCall(blocks, bb), 1, 1, <<>>).handler =
            HandlerOf(frames[Innermost(TryBodies)], 2)

\* --------------------------------------------------- jumps out of statements
\* the finally blocks of the try/finally statements whose try body is open
\* inside frame j, innermost first
RECURSIVE FinallyAbove(_, _)
FinallyAbove(i, j) ==
  IF i <= j THEN <<>>
  ELSE (IF frames[i].kind = "tryfinally.body"
        THEN <<frames[i].finallybb>> ELSE <<>>) \o FinallyAbove(i - 1, j)

\* where a continue of the loop of frame f goes: the condition of a while
\* and of a do-while, the increment of a for
ContinueBlock(f) ==
  CASE f.kind = "while.body" -> f.whilebb
    [] f.kind = "do.body" -> f.condbb
    [] f.kind = "for.body" -> f.forincbb
    [] f.kind = "unrolled.stmt" ->
         IF f.i = Len(f.blocks) THEN f.endbb ELSE f.blocks[f.i + 1]
    [] f.kind \in {"foreach.body", "foreachrange.body"} -> f.nextbb

\* the jump just lowered from the current block leaves through the finally
\* blocks open inside frame j, innermost first, and ends in block target
JumpsTo(j, target) ==
  ExitPath(blocks', scopebb) =
    [run |-> FinallyAbove(Len(frames), j), stop |-> target]

\* C3: a break leads to the end block of the innermost enclosing loop or
\* switch, a continue to the continue block of the innermost enclosing loop;
\* with a label they lead to those blocks of the loop the label names,
\* whatever number of scope statements stands between the label and the loop.
\* On the way exactly the cleanups pushed since that loop was entered are
\* run, innermost first.
C3_JumpTargets ==
  [][ /\ (BreakableFrames # {} /\ Break(FALSE, Ref(0, 0))) =>
           JumpsTo(Innermost(BreakableFrames),
                   frames[Innermost(BreakableFrames)].endbb)
      /\ \A j \in BreakableFrames, wraps \in 0..MaxWraps :
           Break(TRUE, Ref(frames[j].stmt.core, wraps)) =>
             JumpsTo(j, frames[j].endbb)
      /\ (LoopFrames # {} /\ Continue(FALSE, Ref(0, 0))) =>
           JumpsTo(Innermost(LoopFrames),
                   ContinueBlock(frames[Innermost(LoopFrames)]))
      /\ \A j \in LoopFrames, wraps \in 0..MaxWraps :
           Continue(TRUE, Ref(frames[j].stmt.core, wraps)) =>
             JumpsTo(j, ContinueBlock(frames[j]))
    ]_vars

\* a block inside the inner of two open loops branches to the end block of
\* the outer one, a for
C3_Witness ==
  /\ Len(frames) = 2
  /\ frames[1].kind = "for.body" /\ frames[2].kind \in LoopKinds
  /\ \E bb \in BlockIds(blocks) :
       /\ bb > frames[1].endbb
       /\ ExitPath(blocks, bb) = [run |-> <<>>, stop |-> frames[1].endbb]

\* ---------------------------------------------------- exits of try/finally
\* the open try/finally statements whose try body is being visited
FinallyFrames == {i \in 1..Len(frames) : frames[i].kind = "tryfinally.body"}

\* how many times the finally block of frame i is run on the way `run`
TimesRun(run, i) ==
  Cardinality({k \in 1..Len(run) : run[k] = frames[i].finallybb})

\* on the way `run`, the finally blocks of the try/finally statements open
\* inside frame j are run once each and no other one is run
EachOnceAbove(run, j) ==
  \A i \in FinallyFrames : TimesRun(run, i) = IF i > j THEN 1 ELSE 0

\* C2: the finally body of a try/finally with both parts is run exactly once
\* on every exit from its try body: at the end of the try body, on a break
\* or continue of a loop around the statement, on a return, and on an
\* exception that no catch inside the try body catches. An exit that stays
\* inside the try body does not run it.
C2_FinallyRunsOnce ==
  [][ /\ TryFinallyEnd =>
           /\ EachOnceAbove(ExitPath(blocks', scopebb).run, Len(frames) - 1)
           /\ ExitPath(blocks', scopebb).stop = scopebb'
           /\ scopebb' # scopebb
      /\ ReturnStatement => EachOnceAbove(ExitPath(blocks', scopebb).run, 0)
      /\ (BreakableFrames # {} /\ Break(FALSE, Ref(0, 0))) =>
           EachOnceAbove(ExitPath(blocks', scopebb).run,
                         Innermost(BreakableFrames))
      /\ \A j \in BreakableFrames, wraps \in 0..MaxWraps :
           Break(TRUE, Ref(frames[j].stmt.core, wraps)) =>
             EachOnceAbove(ExitPath(blocks', scopebb).run, j)
      /\ (LoopFrames # {} /\ Continue(FALSE, Ref(0, 0))) =>
           EachOnceAbove(ExitPath(blocks', scopebb).run, Innermost(LoopFrames))
      /\ \A j \in LoopFrames, wraps \in 0..MaxWraps :
           Continue(TRUE, Ref(frames[j].stmt.core, wraps)) =>
             EachOnceAbove(ExitPath(blocks', scopebb).run, j)
      /\ ThrowStatement =>
           \A T \in ClassIds :
             EachOnceAbove(Unwinding(ThrowCall(blocks', scopebb), 1, T, <<>>).run,
                           CatchingFrame(T))
    ]_vars

\* inside a loop, in the try body of a try/finally, a block leaves the loop
\* through the finally block
C2_Witness ==
  /\ Len(frames) = 2
  /\ frames[1].kind \in LoopKinds /\ frames[2].kind = "tryfinally.body"
  /\ \E bb \in BlockIds(blocks) :
       ExitPath(blocks, bb) =
         [run |-> <<frames[2].finallybb>>, stop |-> frames[1].endbb]

\* ------------------------------------------------------------ switch routing
\* Where control goes from block bb when the controlling value is v: through
\* unconditional branches, the switch instruction and the comparison
\* branches, until a block of `stops` is entered (0: the way ends elsewhere).
RECURSIVE RouteFrom(_, _, _, _, _)
RouteFrom(B, bb, v, stops, fuel) ==
  LET last == LastInstr(B, bb)
      n == Len(B[bb].instrs)
      matching == {k \in 1..Len(last.keys) : last.keys[k] = v}
      next ==
        CASE last.op = "br" -> last.succ[1]
          [] last.op = "switch" ->
               IF matching = {} THEN last.succ[1]
               ELSE last.succ[1 + CHOOSE k \in matching :
                                     \A j \in matching : k <= j]
          [] last.op = "condbr" /\ n >= 2 /\ B[bb].instrs[n - 1].op = "icmp" ->
               IF B[bb].instrs[n - 1].n = v THEN last.succ[1] ELSE last.succ[2]
          [] OTHER -> 0
  IN IF next = 0 \/ fuel = 0 THEN 0
     ELSE IF next \in stops THEN next
     ELSE RouteFrom(B, next, v, stops, fuel - 1)

Route(B, bb, v, stops) == RouteFrom(B, bb, v, stops, Len(B))

\* the blocks control may be handed to by the dispatch of the switch of
\* frame f: the bodies of its cases and of its default, and its end block
SwitchBodies(f) ==
  {switches[f.sw].cases[k].bodyBB : k \in 1..Len(switches[f.sw].cases)}
    \cup {f.endbb}
    \cup (IF switches[f.sw].hasDefault
          THEN {switches[f.sw].sdefault.bodyBB} ELSE {})

\* the cases of the switch of frame f whose label has value v
CasesOf(f, v) ==
  {k \in 1..Len(switches[f.sw].cases) : switches[f.sw].cases[k].exp.value = v}

\* where value v has to go: the body of the case with that value, else the
\* body of the default, else the end block
RouteExpected(f, v) ==
  IF CasesOf(f, v) # {}
  THEN switches[f.sw].cases[CHOOSE k \in CasesOf(f, v) : TRUE].bodyBB
  ELSE IF switches[f.sw].hasDefault THEN switches[f.sw].sdefault.bodyBB
  ELSE f.endbb

\* the graph after the switch of frame f is dispatched by the given strategy
Dispatched(f, table) ==
  Dispatch(SwitchBodyEnd(blocks, scopebb, f.endbb), f.oldbb,
           switches[f.sw].cases, f.defbb, f.endbb, table, genInstrProf)

\* C9: for a switch whose labels are distinct integer constants, the table
\* strategy, which is the one applied, and the linear strategy send every
\* controlling value to the same block: the body of the case with that value
\* when there is one, the end block when there is none and no default.
C9_StrategiesAgree ==
  [][ (SwitchEnd /\ Top.useSwitchInst) =>
        /\ blocks' = Dispatched(Top, TRUE)
        /\ \A v \in CondValues :
             /\ Route(Dispatched(Top, TRUE), Top.oldbb, v, SwitchBodies(Top))
                  = Route(Dispatched(Top, FALSE), Top.oldbb, v, SwitchBodies(Top))
             /\ (CasesOf(Top, v) # {} \/ ~switches[Top.sw].hasDefault) =>
                  Route(blocks', Top.oldbb, v, SwitchBodies(Top))
                    = RouteExpected(Top, v)
    ]_vars

\* a switch over the constants 1, 2, 5 without default has been dispatched
\* by a switch instruction: 5 goes to the third case, 3 to the end block
C9_Witness ==
  \E bb \in BlockIds(blocks) :
    LET stops == {b \in BlockIds(blocks) : blocks[b].name \in {"case", "switchend"}}
    IN /\ LastInstr(blocks, bb).op = "switch"
       /\ LastInstr(blocks, bb).keys = <<1, 2, 5>>
       /\ Route(blocks, bb, 5, stops) = LastInstr(blocks, bb).succ[4]
       /\ blocks[Route(blocks, bb, 5, stops)].name = "case"
       /\ blocks[Route(blocks, bb, 3, stops)].name = "switchend"

\* C10: whichever strategy dispatches a switch, a controlling value equal to
\* no label goes to the body of the default statement when the switch has
\* one and to the end block of the switch when it has none.
C10_NoMatchGoesToDefault ==
  [][ SwitchEnd =>
        /\ blocks' = Dispatched(Top, Top.useSwitchInst)
        /\ \A v \in CondValues :
             CasesOf(Top, v) = {} =>
               /\ Route(blocks', Top.oldbb, v, SwitchBodies(Top))
                    = IF switches[Top.sw].hasDefault
                      THEN switches[Top.sw].sdefault.bodyBB
                      ELSE Top.endbb
               /\ Top.useSwitchInst =>
                    Route(Dispatched(Top, FALSE), Top.oldbb, v, SwitchBodies(Top))
                      = RouteExpected(Top, v)
    ]_vars

\* the function holds a switch dispatched by comparisons whose last failed
\* comparison leads to the body of the default statement
C10_Witness ==
  LET bodies == {b \in BlockIds(blocks) :
                   /\ blocks[b].name = "default"
                   /\ \E p \in BlockIds(blocks) :
                        /\ blocks[p].name = "default"
                        /\ LastInstr(blocks, p) = Br(b)}
  IN \E bb \in BlockIds(blocks) :
       /\ blocks[bb].name = "checkcase"
       /\ LastInstr(blocks, bb).op = "br"
       /\ Route(blocks, bb, 3, bodies) \in bodies

\* --------------------------------------------------- profile instrumentation
\* the block control goes to from block bb for controlling value v (0: none)
Hop(B, bb, v) == RouteFrom(B, bb, v, BlockIds(B), 1)

\* the blocks control goes through from block bb for controlling value v, up
\* to and including the first of the blocks stops
RECURSIVE Hops(_, _, _, _, _)
Hops(B, bb, v, stops, fuel) ==
  LET next == Hop(B, bb, v)
  IN IF next = 0 \/ fuel = 0 THEN <<>>
     ELSE IF next \in stops THEN <<next>>
     ELSE <<next>> \o Hops(B, next, v, stops, fuel - 1)

\* the graph after the switch of frame f is dispatched by its strategy,
\* with profile instrumentation on or off
Instrumented(f, prof) ==
  Dispatch(SwitchBodyEnd(blocks, scopebb, f.endbb), f.oldbb,
           switches[f.sw].cases, f.defbb, f.endbb, f.useSwitchInst, prof)

CounterNames == {"casecntr", "defaultcntr"}

\* the counter blocks of graph B
Counters(B) == {b \in BlockIds(B) : B[b].name \in CounterNames}

\* the names of the blocks of B that are not counter blocks, in order
PlainNames(B) ==
  LET sel == SelectSeq(B, LAMBDA b : b.name \notin CounterNames)
  IN [k \in 1..Len(sel) |-> sel[k].name]

\* C35: profile instrumentation does not change where a switch sends a
\* controlling value, under the table and under the linear strategy: the
\* instrumented dispatch differs from the plain one only by one counter block
\* per case and one for the default, each holding a single branch to the
\* block the plain dispatch would have named, and every value goes through
\* exactly one of them, right after the dispatch, on its way to the same
\* destination through the same blocks.
C35_ProfilingKeepsRouting ==
  [][ SwitchEnd =>
        LET plain == Instrumented(Top, FALSE)
            prof == Instrumented(Top, TRUE)
            bodies == SwitchBodies(Top)
        IN /\ blocks' = IF genInstrProf THEN prof ELSE plain
           /\ Counters(plain) = Counters(blocks)
           /\ Cardinality(Counters(prof) \ Counters(plain))
                = Len(switches[Top.sw].cases) + 1
           /\ Len(prof) = Len(plain) + Len(switches[Top.sw].cases) + 1
           /\ PlainNames(prof) = PlainNames(plain)
           /\ \A c \in Counters(prof) \ Counters(plain) :
                /\ Len(prof[c].instrs) = 1
                /\ prof[c].instrs[1].op = "br"
                /\ prof[c].instrs[1].succ[1] \in bodies \cup {Top.defbb}
                /\ Cardinality(Predecessors(prof, c)) = 1
           /\ \A v \in CondValues :
                LET p == Hops(plain, Top.oldbb, v, bodies, Len(plain))
                    q == Hops(prof, Top.oldbb, v, bodies, Len(prof))
                    cntr == {j \in 1..Len(q) : q[j] \in Counters(prof)}
                IN /\ p # <<>>
                   /\ Len(q) = Len(p) + 1
                   /\ q[Len(q)] = RouteExpected(Top, v)
                   /\ Cardinality(cntr) = 1
                   /\ \A j \in cntr :
                        /\ prof[q[j]].name
                             = IF CasesOf(Top, v) # {} THEN "casecntr"
                               ELSE "defaultcntr"
                        /\ prof[q[j]].instrs = <<Br(p[j])>>
                        /\ SubSeq(q, j + 1, Len(q)) = SubSeq(p, j, Len(p))
                        /\ \A i \in 1..(j - 1) :
                             /\ prof[q[i]].name = "checkcase"
                             /\ plain[p[i]].name = "checkcase"
    ]_vars

\* an instrumented function holds a switch dispatched by a switch
\* instruction and one dispatched by comparisons: in each a counter block
\* of a case stands between the dispatch and the body of the case
C35_Witness ==
  /\ genInstrProf
  /\ \E s, c \in BlockIds(blocks) :
       /\ LastInstr(blocks, s).op = "switch"
       /\ c \in {LastInstr(blocks, s).succ[k] :
                   k \in 2..Len(LastInstr(blocks, s).succ)}
       /\ blocks[c].name = "casecntr"
       /\ blocks[blocks[c].instrs[1].succ[1]].name = "case"
       /\ blocks[LastInstr(blocks, s).succ[1]].name = "defaultcntr"
  /\ \E s, c \in BlockIds(blocks) :
       /\ LastInstr(blocks, s).op = "condbr"
       /\ c = LastInstr(blocks, s).succ[1]
       /\ blocks[c].name = "casecntr"
       /\ blocks[blocks[c].instrs[1].succ[1]].name = "case"

\* ----------------------------------------------------------- string switch
\* the strings before string str in lexicographic order, among the labels
RankOf(cases, str) ==
  Cardinality({j \in 1..Len(cases) : compare(cases[j].exp.value, str)})

\* the table number handed to the runtime call that precedes the switch
\* instruction ending block bb
TableOf(B, bb) == B[bb].instrs[Len(B[bb].instrs) - 1].n

\* C11: when a string switch is dispatched, the constant table lists the
\* case strings in lexicographic order, the switch instruction keys every
\* case by the rank of its string in that order, whatever the source order,
\* and the index the runtime finds for a controlling string leads to the
\* body of the case with that string, or to the default target when no case
\* has it.
C11_StringIndexIsSortedRank ==
  [][ (SwitchEnd /\ ~switches[Top.sw].isintegral) =>
        LET cases == switches[Top.sw].cases
            n == Len(cases)
            si == LastInstr(blocks', Top.oldbb)
            table == stringTables'[TableOf(blocks', Top.oldbb)]
        IN /\ si.op = "switch"
           /\ TableOf(blocks', Top.oldbb) = Len(stringTables')
           /\ Len(table) = n
           /\ \A i, j \in 1..n : i < j => compare(table[i], table[j])
           /\ \A k \in 1..n :
                /\ si.keys[k] = RankOf(cases, cases[k].exp.value)
                /\ table[si.keys[k] + 1] = cases[k].exp.value
           /\ \A str \in CondStrings :
                Route(blocks', Top.oldbb, SwitchString(table, str),
                      SwitchBodies(Top))
                  = RouteExpected(Top, str)
    ]_vars

\* the switch over "b", "a", "c" has been dispatched: the table is a, b, c,
\* the keys of the cases are 1, 0, 2, and index 1 leads to the first case
C11_Witness ==
  \E bb \in BlockIds(blocks) :
    LET stops == {b \in BlockIds(blocks) : blocks[b].name \in {"case", "switchend"}}
    IN /\ LastInstr(blocks, bb).op = "switch"
       /\ LastInstr(blocks, bb).keys = <<1, 0, 2>>
       /\ stringTables = <<(<<(<<1>>), (<<2>>), (<<3>>)>>)>>
       /\ TableOf(blocks, bb) = 1
       /\ Route(blocks, bb, SwitchString(stringTables[1], <<2>>), stops)
            = LastInstr(blocks, bb).succ[2]
       /\ blocks[LastInstr(blocks, bb).succ[2]].name = "case"

\* --------------------------------------------------------- switch strategy
\* the label is a compile-time constant: a literal, or a variable that has
\* an initializer and is const
CompileTimeConstant(exp) == exp.op = "TOKvar" => (exp.init /\ exp.isConst)

\* block bb hands over to the first comparison of a linear dispatch
EntersCompareChain(B, bb) ==
  /\ LastInstr(B, bb).op = "br"
  /\ B[LastInstr(B, bb).succ[1]].name = "checkcase"

\* C12: when an integer switch is dispatched, the block it was met in ends
\* in a switch instruction if every case label is a compile-time constant,
\* and in the branch to a chain of comparisons as soon as one label is a
\* variable without initializer or not const; the strategy fixed when the
\* switch was entered is the one applied.
C12_TableIffAllConstant ==
  [][ SwitchEnd =>
        LET cases == switches[Top.sw].cases
            allConstant ==
              \A k \in 1..Len(cases) : CompileTimeConstant(cases[k].exp)
        IN /\ Top.useSwitchInst = allConstant
           /\ allConstant => /\ LastInstr(blocks', Top.oldbb).op = "switch"
                             /\ Len(LastInstr(blocks', Top.oldbb).keys) = Len(cases)
           /\ ~allConstant =>
                /\ EntersCompareChain(blocks', Top.oldbb)
                /\ \A bb \in BlockIds(blocks') \ BlockIds(blocks) :
                     LastInstr(blocks', bb).op # "switch"
                /\ Cardinality({bb \in BlockIds(blocks') \ BlockIds(blocks) :
                                  blocks'[bb].name = "checkcase"})
                     = Len(cases) + 1
    ]_vars

\* a finished function whose only switch has a literal label and a label
\* that is an initialized variable which is not const: the literal too is
\* compared in a chain of comparisons, and there is no switch instruction
C12_Witness ==
  /\ frames = <<>>
  /\ Len(switches) = 1
  /\ Len(switches[1].cases) = 2
  /\ switches[1].cases[1].exp = CaseExp(1, TRUE)
  /\ switches[1].cases[2].exp = VarExp(2, TRUE, FALSE)
  /\ \E bb \in BlockIds(blocks) :
       /\ blocks[bb].name = "checkcase"
       /\ \E k \in 1..Len(blocks[bb].instrs) :
            blocks[bb].instrs[k] = Instr("icmp", 1, <<>>, <<>>)
  /\ \A bb \in BlockIds(blocks) : LastInstr(blocks, bb).op # "switch"

\* ------------------------------------------------------ the compare chain
\* the comparisons met from block bb on by a value equal to none: the value
\* each compares with and the block entered on equality; at last, with
\* value 0, the block the branch after the last comparison leads to
RECURSIVE CompareChain(_, _, _)
CompareChain(B, bb, fuel) ==
  LET last == LastInstr(B, bb)
      n == Len(B[bb].instrs)
  IN IF fuel > 0 /\ last.op = "condbr" /\ n >= 2 /\ B[bb].instrs[n - 1].op = "icmp"
     THEN <<[value |-> B[bb].instrs[n - 1].n, hit |-> last.succ[1]]>>
          \o CompareChain(B, last.succ[2], fuel - 1)
     ELSE <<[value |-> 0,
             hit |-> IF last.op = "br" THEN last.succ[1] ELSE 0]>>

\* block bb, or the block a counter block bb branches to
Behind(B, bb) ==
  IF bb # 0 /\ B[bb].name \in {"casecntr", "defaultcntr"}
  THEN LastInstr(B, bb).succ[1] ELSE bb

\* where value v has to go in source order: the body of the first case with
\* that value, else the default target
FirstMatchExpected(f, v) ==
  IF CasesOf(f, v) # {}
  THEN switches[f.sw].cases[CHOOSE k \in CasesOf(f, v) :
                              \A j \in CasesOf(f, v) : k <= j].bodyBB
  ELSE IF switches[f.sw].hasDefault THEN switches[f.sw].sdefault.bodyBB
  ELSE f.endbb

\* C13: when a switch is dispatched by the linear strategy, the block it was
\* met in branches to a chain with one comparison per case, in source
\* order: the k-th compares with the value of the k-th case and enters its
\* body on equality, and fails into the (k+1)-th comparison; the last
\* failure branches to the default target. So every controlling value
\* enters the body of the first case in source order that has its value,
\* also when a later case has the same value, and the default body (the end
\* block when there is no default) when no case has it.
C13_LinearInSourceOrder ==
  [][ (SwitchEnd /\ ~Top.useSwitchInst) =>
        LET cases == switches[Top.sw].cases
            n == Len(cases)
            chain == CompareChain(blocks', LastInstr(blocks', Top.oldbb).succ[1],
                                  Len(blocks'))
        IN /\ EntersCompareChain(blocks', Top.oldbb)
           /\ Len(chain) = n + 1
           /\ \A k \in 1..n :
                /\ chain[k].value = cases[k].exp.value
                /\ Behind(blocks', chain[k].hit) = cases[k].bodyBB
           /\ Behind(blocks', chain[n + 1].hit)
                = (IF switches[Top.sw].hasDefault THEN Top.defbb ELSE Top.endbb)
           /\ \A v \in CondValues :
                Route(blocks', Top.oldbb, v, SwitchBodies(Top))
                  = FirstMatchExpected(Top, v)
    ]_vars

\* a finished function whose only switch has two variables as labels, both
\* holding 2, and a default: 2 enters the body of the first case, 3 the
\* default
C13_Witness ==
  LET caseBlocks == {b \in BlockIds(blocks) : blocks[b].name = "case"}
      stops == {b \in BlockIds(blocks) :
                  blocks[b].name \in {"case", "default", "switchend"}}
  IN /\ frames = <<>>
     /\ Len(switches) = 1
     /\ switches[1].hasDefault
     /\ switches[1].cases = <<[exp |-> CaseExp(2, FALSE), bodyBB |-> 0, llvmIdx |-> 0],
                             [exp |-> CaseExp(2, FALSE), bodyBB |-> 0, llvmIdx |-> 0]>>
     /\ Cardinality(caseBlocks) = 2
     /\ Route(blocks, 1, 2, stops) \in caseBlocks
     /\ \A b \in caseBlocks : Route(blocks, 1, 2, stops) <= b
     /\ blocks[Route(blocks, 1, 3, stops)].name = "default"

\* ----------------------------------------------------------- unrolled loops
\* the open unrolled loops a break or continue may belong to
UnrolledFrames == {j \in LoopFrames : frames[j].kind = "unrolled.stmt"}

\* the blocks of the children after child i of the unrolled loop of frame f
LaterChildren(f) == {f.blocks[k] : k \in (f.i + 1)..Len(f.blocks)}

\* C14: a break lowered inside child i of an unrolled loop (the innermost
\* breakable statement, or the one its label names) branches to the end
\* block of the loop, through the finally blocks opened inside the child
\* and through no block of a later child; a continue branches in the same
\* way to the block of child i + 1, and to the end block when child i is
\* the last.
C14_UnrolledBreakContinue ==
  [][ /\ \A j \in UnrolledFrames :
           /\ ((j = Innermost(BreakableFrames) /\ Break(FALSE, Ref(0, 0)))
                \/ \E wraps \in 0..MaxWraps :
                     Break(TRUE, Ref(frames[j].stmt.core, wraps))) =>
                /\ JumpsTo(j, frames[j].endbb)
                /\ LastInstr(blocks', scopebb).succ[1] \notin LaterChildren(frames[j])
           /\ ((j = Innermost(LoopFrames) /\ Continue(FALSE, Ref(0, 0)))
                \/ \E wraps \in 0..MaxWraps :
                     Continue(TRUE, Ref(frames[j].stmt.core, wraps))) =>
                JumpsTo(j, IF frames[j].i = Len(frames[j].blocks)
                           THEN frames[j].endbb
                           ELSE frames[j].blocks[frames[j].i + 1])
    ]_vars

\* in child 2 of an unrolled loop of 4 children a break and a continue have
\* been lowered: one block branches to the end block, one to child 3
C14_Witness ==
  /\ Len(frames) = 1
  /\ frames[1].kind = "unrolled.stmt"
  /\ Len(frames[1].blocks) = 4
  /\ frames[1].i = 2
  /\ \E b1, b2 \in BlockIds(blocks) :
       /\ b1 \notin {frames[1].blocks[1]}
       /\ ExitPath(blocks, b1) = [run |-> <<>>, stop |-> frames[1].endbb]
       /\ b2 # frames[1].blocks[2]
       /\ ExitPath(blocks, b2) = [run |-> <<>>, stop |-> frames[1].blocks[3]]
       /\ blocks[b2].name \in {"unrolledstmt", "afterbreak"}
       /\ blocks[b1].name \in {"unrolledstmt", "afterbreak"}

\* ----------------------------------------------------------- labels, gotos
\* the recorded gotos to label ident that wait for its definition
Waiting(ident) == {k \in 1..Len(gotoJumps) : gotoJumps[k].ident = ident}

\* a goto from inside the cleanup scopes `from` to a label inside the cleanup
\* scopes `to` enters a scope with a cleanup that it is not inside of
JumpsInto(from, to) ==
  \E i \in 1..Len(to) : i > Len(from) \/ from[i] # to[i]

\* C15: a goto to a label that is not defined yet ends its block in a branch
\* without target and is recorded; while lowering goes on without error the
\* branches without target are exactly those of the recorded gotos, all to
\* labels still undefined; the label statement, lowered once, gives every
\* recorded goto to its label a path that ends in the block created for the
\* label, and leaves none of them recorded or without target.
C15_ForwardGotoResolved ==
  /\ [](~fatal =>
          /\ \A bb \in BlockIds(blocks) :
               Dangling(blocks, bb) =>
                 \E k \in 1..Len(gotoJumps) : gotoJumps[k].sourceBlock = bb
          /\ \A k \in 1..Len(gotoJumps) :
               /\ ~LabelKnown(labelTargets, gotoJumps[k].ident)
               /\ Dangling(blocks, gotoJumps[k].sourceBlock))
  /\ [][ \A ident \in Labels :
           /\ (Goto(ident) /\ ~LabelKnown(labelTargets, ident)) =>
                /\ Dangling(blocks', scopebb)
                /\ \E k \in Waiting(ident)' : gotoJumps'[k].sourceBlock = scopebb
           /\ (Label(ident) /\ ~fatal') =>
                /\ blocks'[scopebb'].name = "label"
                /\ scopebb' = Len(blocks) + 1
                /\ LabelOf(labelTargets', ident).targetBlock = scopebb'
                /\ Waiting(ident)' = {}
                /\ \A k \in Waiting(ident) :
                     ExitPath(blocks', gotoJumps[k].sourceBlock).stop = scopebb'
       ]_vars

\* a goto was lowered before its label: its block, made before the block
\* that follows the goto, now branches to the label's block, made after it
C15_Witness ==
  /\ ~fatal
  /\ \E bb, ag, lb \in BlockIds(blocks) :
       /\ bb < ag /\ ag < lb
       /\ blocks[ag].name = "aftergoto"
       /\ blocks[lb].name = "label"
       /\ LastInstr(blocks, bb) = Br(lb)
       /\ LabelKnown(labelTargets, 1)
       /\ LabelOf(labelTargets, 1).targetBlock = lb

\* C16: a goto to a label that lies in a cleanup scope the goto is not
\* inside of is an error, reported when the goto is lowered if the label is
\* already defined and when the label is lowered if it is defined later;
\* any other goto leads to the label's block through exactly the cleanups
\* of the scopes it is inside of and the label is not, innermost first.
C16_GotoAcrossCleanups ==
  [][ \A ident \in Labels :
        /\ (Goto(ident) /\ LabelKnown(labelTargets, ident)) =>
             LET label == LabelOf(labelTargets, ident)
             IN IF JumpsInto(cleanupScopes, label.scopes)
                THEN fatal' /\ blocks' = blocks
                ELSE /\ ~fatal'
                     /\ ExitPath(blocks', scopebb) =
                          [run |-> PendingAbove(cleanupScopes, Len(label.scopes)),
                           stop |-> label.targetBlock]
        /\ Label(ident) =>
             IF \E k \in Waiting(ident) :
                  JumpsInto(gotoJumps[k].scopes, cleanupScopes)
             THEN fatal'
             ELSE /\ ~fatal'
                  /\ \A k \in Waiting(ident) :
                       ExitPath(blocks', gotoJumps[k].sourceBlock) =
                         [run |-> PendingAbove(gotoJumps[k].scopes,
                                               Len(cleanupScopes)),
                          stop |-> scopebb']
    ]_vars

\* a goto lowered in the try body of a try/finally has been given its
\* label after the end of the try/finally: its block leads to the label's
\* block through the finally block
C16_Witness ==
  /\ ~fatal /\ frames = <<>>
  /\ \E bb, fb, lb \in BlockIds(blocks) :
       /\ blocks[fb].name = "finally"
       /\ blocks[lb].name = "label"
       /\ bb < lb
       /\ ExitPath(blocks, bb) = [run |-> <<fb>>, stop |-> lb]

\* ------------------------------------------------ the two exception strategies
\* What an exception of class T does at the call `instr` under either
\* strategy, from step k of its route on: a cleanup met is run, a catch
\* whose class matches takes it, and at the dispatch block of a try/catch
\* of the funclet strategy the route goes on with the catch switch of that
\* block: its handlers in the order they were added, then what it unwinds
\* to. handler is 0 when the exception leaves the function.
RECURSIVE Dispatching(_, _, _, _, _, _)
Dispatching(B, instr, k, T, run, fuel) ==
  IF instr.op \notin {"invoke", "catchswitch"} \/ k > Len(instr.succ) \/ fuel = 0
  THEN [run |-> run, handler |-> 0]
  ELSE IF instr.keys[k] = 0 /\ B[instr.succ[k]].name = "catch.dispatch"
  THEN Dispatching(B, B[instr.succ[k]].instrs[1], 1, T, run, fuel - 1)
  ELSE IF instr.keys[k] = 0
  THEN Dispatching(B, instr, k + 1, T, Append(run, instr.succ[k]), fuel)
  ELSE IF Matches(T, instr.keys[k])
  THEN [run |-> run, handler |-> instr.succ[k]]
  ELSE Dispatching(B, instr, k + 1, T, run, fuel)

\* the first block of the i-th catch, in source order, of the try/catch of
\* frame f
SourceHandler(f, i) ==
  f.handlers[CHOOSE k \in 1..Len(f.handlers) : f.handlers[k].index = i].BB

\* the block the body of the catch that begins in block bb is lowered from
BodyEntry(B, bb) ==
  IF LastInstr(B, bb).op = "catchret" THEN LastInstr(B, bb).succ[1] ELSE bb

\* the open try/catch statements a catch body of which is being visited
CatchBodies == {i \in 1..Len(frames) : frames[i].kind = "trycatch.catch"}

\* the catch entries the open try bodies of frames 1..i have pushed, as
\* pairs of class and block, outermost first
RECURSIVE PushedBy(_)
PushedBy(i) ==
  IF i = 0 THEN <<>>
  ELSE PushedBy(i - 1) \o
       (IF frames[i].kind = "trycatch.body"
        THEN [k \in 1..Len(frames[i].catchBlocks) |->
                <<frames[i].catchBlocks[k].classdecl, frames[i].catchBlocks[k].BB>>]
        ELSE <<>>)

\* C17: under both strategies the catch stack holds, from the bottom up,
\* the entries of the try/catch statements whose try body is being lowered
\* and no other; the entries a try/catch pushes before its try body (one per
\* catch with landing pads, one for the dispatch block with funclets) are
\* as many as it pops after it, so that the stack is after the statement
\* what it was before it.
C17_CatchStackBalanced ==
  /\ []([k \in 1..Len(catchScopes) |->
            <<catchScopes[k].classInfoPtr, catchScopes[k].bodyBlock>>]
          = PushedBy(Len(frames)))
  /\ [][ /\ (TryCatchHandlerEnd /\ Top.it = Len(Top.catches)) =>
              /\ Len(catchScopes') - Len(catchScopes)
                   = (IF useMSVCEH THEN 1 ELSE Len(Top.catches))
              /\ Len(frames'[Len(frames')].catchBlocks)
                   = Len(catchScopes') - Len(catchScopes)
         /\ TryCatchEnd =>
              /\ Len(catchScopes) - Len(catchScopes')
                   = (IF useMSVCEH THEN 1 ELSE Len(Top.catches))
              /\ catchScopes' = SubSeq(catchScopes, 1, Len(catchScopes'))
         /\ (TryCatchHandlerEnd /\ Top.it < Len(Top.catches)) =>
              catchScopes' = catchScopes
         /\ TryCatchStatementEH => catchScopes' = catchScopes
       ]_vars

\* a try/catch with two catches nested in the try body of another has been
\* lowered to its end with landing pads: the stack holds the entries of the
\* outer statement again
C17_Witness ==
  /\ ~useMSVCEH
  /\ Len(frames) = 1 /\ frames[1].kind = "trycatch.body"
  /\ Len(catchScopes) = Len(frames[1].catches)
  /\ Cardinality({bb \in BlockIds(blocks) :
                    blocks[bb].name = "try.success.or.caught"}) = 2
  /\ blocks[scopebb].name = "try.success.or.caught"
  /\ Cardinality({bb \in BlockIds(blocks) : blocks[bb].name = "catch"}) >= 3

\* the blocks of the catches of the try/catch of frame f
OwnBlocks(f) ==
  ({f.handlers[k].BB : k \in 1..Len(f.handlers)}
     \cup {f.catchBB} \cup {f.catchSwitchBlock}) \cap BlockIds(blocks)

\* C18: while a catch body of a try/catch is being lowered, under either
\* strategy, no entry of the catch stack leads to a catch of that
\* statement, and the route of an exception thrown in the catch body holds
\* none of them: it is taken by the first matching catch of the innermost
\* enclosing try body that has one, or leaves the function.
C18_NoSiblingCatch ==
  /\ [](\A i \in CatchBodies :
          \A k \in 1..Len(catchScopes) :
            catchScopes[k].bodyBlock \notin OwnBlocks(frames[i]))
  /\ [][ (ThrowStatement /\ CatchBodies # {}) =>
            LET call == ThrowCall(blocks', scopebb)
            IN /\ \A i \in CatchBodies :
                    \A k \in 1..Len(call.succ) :
                      call.succ[k] \notin OwnBlocks(frames[i])
               /\ \A T \in ClassIds :
                    LET d == Dispatching(blocks', call, 1, T, <<>>, Len(blocks'))
                    IN /\ \A i \in CatchBodies :
                            d.handler \notin OwnBlocks(frames[i])
                       /\ d.handler =
                            IF CatchingFrame(T) = 0 THEN 0
                            ELSE SourceHandler(
                                   frames[CatchingFrame(T)],
                                   FirstMatch(frames[CatchingFrame(T)].catches, T))
       ]_vars

\* a throw has been lowered in the body of the second catch lowered of a
\* try/catch that lies in no other: it is a plain call
C18_Witness ==
  /\ Len(frames) = 1 /\ frames[1].kind = "trycatch.catch"
  /\ frames[1].it = 2
  /\ catchScopes = <<>>
  /\ blocks[scopebb].name = "afterthrow"
  /\ \E bb \in BlockIds(blocks) :
       /\ bb > frames[1].catchBB - 1
       /\ Len(blocks[bb].instrs) >= 2
       /\ LastInstr(blocks, bb).op = "unreachable"
       /\ ThrowCall(blocks, bb).op = "call"

\* C19: with landing pads and with funclets alike, an exception thrown in
\* a try body is taken by the first catch, in source order, whose class it
\* is an instance of, of the innermost enclosing try body that has one, and
\* by none when there is none; the body of a catch is lowered from the
\* block control has when its handler is entered; a catch body that ends
\* normally and the try body branch to the one end block of the statement,
\* where lowering goes on.
C19_StrategiesSelectSameHandler ==
  [][ /\ ThrowStatement =>
           \A T \in ClassIds :
             LET f == CatchingFrame(T)
                 d == Dispatching(blocks', ThrowCall(blocks', scopebb), 1, T,
                                  <<>>, Len(blocks'))
             IN d.handler =
                  IF f = 0 THEN 0
                  ELSE SourceHandler(frames[f], FirstMatch(frames[f].catches, T))
      /\ TryCatchHandlerEnd =>
           /\ LastInstr(blocks', scopebb) = Br(Top.endbb)
           /\ blocks'[Top.endbb].name = "try.success.or.caught"
           /\ BodyEntry(blocks', Top.catchBB) \in BlockIds(blocks)
           /\ (Top.it < Len(Top.catches) =>
                BodyEntry(blocks', frames'[Len(frames')].catchBB) = scopebb')
      /\ TryCatchStatementEH =>
           BodyEntry(blocks', frames'[Len(frames')].catchBB) = scopebb'
      /\ TryCatchEnd =>
           /\ LastInstr(blocks', scopebb) = Br(Top.endbb)
           /\ scopebb' = Top.endbb
           /\ \A k \in 1..Len(Top.handlers) :
                \E bb \in BlockIds(blocks) :
                  /\ bb >= BodyEntry(blocks, Top.handlers[k].BB)
                  /\ LastInstr(blocks, bb) = Br(Top.endbb)
    ]_vars

\* with funclets, a throw has been lowered in the try body of a try/catch
\* with catches for the second class and then for the root: an exception of
\* the second class enters the catch pad of the first catch, one of the
\* third class the catch pad of the second
C19_Witness ==
  /\ useMSVCEH
  /\ TryBodies # {}
  /\ frames[Innermost(TryBodies)].catches = <<2, 1>>
  /\ \E bb \in BlockIds(blocks) :
       LET call == ThrowCall(blocks, bb)
           h2 == Dispatching(blocks, call, 1, 2, <<>>, Len(blocks)).handler
           h3 == Dispatching(blocks, call, 1, 3, <<>>, Len(blocks)).handler
       IN /\ Len(blocks[bb].instrs) >= 2
          /\ LastInstr(blocks, bb).op = "unreachable"
          /\ call.op = "invoke"
          /\ h2 # 0 /\ h3 # 0 /\ h2 < h3
          /\ blocks[h2].instrs[1] = Instr("catchpad", 2, <<>>, <<>>)
          /\ blocks[h3].instrs[1] = Instr("catchpad", 1, <<>>, <<>>)
          /\ LastInstr(blocks, h2).op = "catchret"

\* ------------------------------------------------------ lowering twice
\* the traversal of the tree by the call under way has come to its end
Lowered == frames = <<>> /\ nstmts > 0 /\ ~fatal

\* C20: when the same tree is lowered a second time, with a new lowering
\* state and the same configuration, the second graph is the first: block
\* for block in creation order the same name and the same instructions with
\* the same successors, the branches through the finally blocks among them.
\* While the second lowering is under way, the blocks it has created are
\* the first blocks of the first graph, by name.
C20_LoweringTwiceSameGraph ==
  pass = 2 =>
    /\ Len(blocks) <= Len(first)
    /\ \A b \in 1..Len(blocks) : blocks[b].name = first[b].name
    /\ Lowered => blocks = first

\* a switch with a goto case ahead of its case and a break in a try/finally
\* has been lowered twice: in both graphs the finally block is run on the way
\* to the end block of the switch, the third block created
C20_Witness ==
  /\ pass = 2 /\ Lowered
  /\ blocks = first
  /\ \E i, j \in 1..Len(ast.items) :
       /\ ast.items[i].stmt.kind = "gotocase"
       /\ ~ast.items[i].isDefault
       /\ ast.items[i].stmt.k > Cardinality({h \in 1..i : ~ast.items[h].isDefault})
       /\ ast.items[j].stmt.guarded
  /\ \E b, c \in BlockIds(blocks) :
       /\ blocks[b].name = "goto_case"
       /\ blocks[c].name = "finally"
       /\ \E d \in BlockIds(blocks) :
            /\ blocks[d].instrs # <<>>
            /\ blocks[d].instrs[1] = Instr("cleanup", c, <<>>, <<>>)
            /\ LastInstr(blocks, d) = Br(3)

\* ------------------------------------------ the scratch fields of a switch
\* the handler of a switch statement is entered now
SwitchEntered ==
  /\ Len(frames') = Len(frames) + 1
  /\ frames'[Len(frames')].kind = "switch.body"

\* C32: the step that ends the lowering of a switch leaves the block and the
\* index of every case of the switch and the block of its default null,
\* whether or not a goto case made a placeholder for a case; whenever no
\* statement is being lowered these fields are null in every switch of the
\* tree, and they are null whenever the handler of a switch is entered for
\* a tree lowered before: the assertions at its entry hold.
C32_ScratchFieldsCleared ==
  /\ [](frames = <<>> =>
          \A s \in 1..Len(switches) : EntryAssertions(switches[s]))
  /\ [][ /\ SwitchEnd => EntryAssertions(switches'[Top.sw])
         /\ (SwitchEntered /\ pass = 2) =>
              \A s \in 1..Len(switches) :
                switches[s].node = nstmts + 1 => EntryAssertions(switches[s])
     ]_vars

\* a switch with a default and a goto case ahead of its case, which made a
\* placeholder, has been lowered once and its handler is entered again
C32_Witness ==
  /\ pass = 2
  /\ frames # <<>>
  /\ HasDefault(ast)
  /\ \E b \in BlockIds(first) : first[b].name = "goto_case"
  /\ \E k \in 1..Len(switches[1].cases) : switches[1].cases[k].bodyBB # 0

\* ------------------------------------------------------ running a foreach
\* the values of an integer type of w bits, and 2^w
RECURSIVE Pow2(_)
Pow2(w) == IF w = 0 THEN 1 ELSE 2 * Pow2(w - 1)

IntValues(w) == 0..(Pow2(w) - 1)

\* the number the bits x stand for in a signed type of w bits
AsSigned(x, w) == IF x >= Pow2(w - 1) THEN x - Pow2(w) ELSE x

\* the number the bits x of the key stand for
KeyValue(x, w, unsigned) == IF unsigned THEN x ELSE AsSigned(x, w)

\* icmp pred a, b on w bits
ICmp(pred, a, b, w) ==
  CASE pred = "ult" -> a < b
    [] pred = "ugt" -> a > b
    [] pred = "slt" -> AsSigned(a, w) < AsSigned(b, w)
    [] pred = "sgt" -> AsSigned(a, w) > AsSigned(b, w)

\* the operand named src, in environment env
Operand(env, src) ==
  CASE src = "lower" -> env.lower
    [] src = "upper" -> env.upper
    [] src = "niters" -> env.niters
    [] src = "zerokey" -> 0

\* The instructions of block bb run from instruction pc on: env holds the
\* key variable, the result of the last comparison, the length and the two
\* bounds; trace is the value of the key each time control is at instruction
\* mark, where the body begins; next is the block branched to, 0 when the
\* block does not end in a branch.
RECURSIVE ExecBlock(_, _, _, _, _, _)
ExecBlock(B, bb, pc, env, trace, mark) ==
  IF pc > Len(B[bb].instrs) THEN [env |-> env, trace |-> trace, next |-> 0]
  ELSE LET i == B[bb].instrs[pc]
           tr == IF <<bb, pc>> = mark THEN Append(trace, env.key) ELSE trace
       IN CASE i.op = "br" -> [env |-> env, trace |-> tr, next |-> i.succ[1]]
            [] i.op = "condbr" ->
                 [env |-> env, trace |-> tr,
                  next |-> IF env.flag THEN i.succ[1] ELSE i.succ[2]]
            [] i.op = "store" ->
                 ExecBlock(B, bb, pc + 1,
                           [env EXCEPT !.key = Operand(env, i.keys[1])], tr, mark)
            [] i.op = "icmp" ->
                 ExecBlock(B, bb, pc + 1,
                           [env EXCEPT !.flag =
                              ICmp(i.keys[1], env.key, Operand(env, i.keys[2]),
                                   env.w)],
                           tr, mark)
            [] i.op = "add" ->
                 ExecBlock(B, bb, pc + 1,
                           [env EXCEPT !.key = (@ + i.n) % Pow2(env.w)], tr, mark)
            [] i.op = "sub" ->
                 ExecBlock(B, bb, pc + 1,
                           [env EXCEPT !.key =
                              (@ + Pow2(env.w) - i.n) % Pow2(env.w)],
                           tr, mark)
            [] i.op = "trunc" ->
                 ExecBlock(B, bb, pc + 1,
                           [env EXCEPT !.niters = @ % Pow2(i.n)], tr, mark)
            [] i.op \in {"exp", "gep", "zext", "bitcast"} ->
                 ExecBlock(B, bb, pc + 1, env, tr, mark)
            [] OTHER -> [env |-> env, trace |-> tr, next |-> 0]

\* the run from instruction pc of block bb on, block after block until
\* block stop is entered
RECURSIVE Exec(_, _, _, _, _, _, _, _)
Exec(B, bb, pc, env, trace, mark, stop, fuel) ==
  IF bb = stop THEN [trace |-> trace, ended |-> TRUE]
  ELSE IF fuel = 0 THEN [trace |-> trace, ended |-> FALSE]
  ELSE LET r == ExecBlock(B, bb, pc, env, trace, mark)
       IN IF r.next = 0 THEN [trace |-> r.trace, ended |-> FALSE]
          ELSE Exec(B, r.next, 1, r.env, r.trace, mark, stop, fuel - 1)

\* the loop of frame f, lowered into B, run over an array of length n or
\* over the bounds lower and upper
RunForeach(B, f, lower, upper, n) ==
  Exec(B, f.prebb, f.prepc,
       [key |-> 0, flag |-> FALSE, niters |-> n, lower |-> lower,
        upper |-> upper, w |-> f.keybits],
       <<>>, <<f.bodybb, f.bodypc>>, f.endbb, 4 * Pow2(f.keybits) + 4)

\* the bits of the numbers from, from + 1, ..., from + count - 1
Ascending(from, count, w) ==
  [k \in 1..count |-> (from + k - 1 + Pow2(w)) % Pow2(w)]

\* the bits of the numbers from, from - 1, ..., from - count + 1
Descending(from, count, w) ==
  [k \in 1..count |-> (from - k + 1 + Pow2(w)) % Pow2(w)]

\* no break of the body of the loop of frame f: only the condition leaves
\* the loop
NoBreak(B, f) == Predecessors(B, f.endbb) = {f.condbb}

\* C25: a reverse foreach over the range lower .. upper, lowered with a body
\* that has no break, runs the body upper - lower times when lower < upper,
\* the key being upper - 1, upper - 2, ..., lower in turn, and never when
\* lower >= upper.
C25_ReverseRange ==
  [][ (ForeachRangeEnd /\ Top.op = "TOKforeach_reverse"
         /\ NoBreak(blocks', Top)) =>
        \A lower, upper \in IntValues(Top.keybits) :
          LET lo == KeyValue(lower, Top.keybits, Top.unsigned)
              up == KeyValue(upper, Top.keybits, Top.unsigned)
              r == RunForeach(blocks', Top, lower, upper, 0)
          IN /\ r.ended
             /\ r.trace = IF lo < up
                          THEN Descending(upper - 1, up - lo, Top.keybits)
                          ELSE <<>>
    ]_vars

\* what the code does instead: the key starts from upper and the condition
\* compares the key with upper, so that the body of a reverse foreach over
\* a range is never entered, whatever the bounds
ReverseRangeNeverRuns ==
  [][ (ForeachRangeEnd /\ Top.op = "TOKforeach_reverse"
         /\ NoBreak(blocks', Top)) =>
        /\ blocks'[Top.prebb].instrs[Top.prepc + 2]
             = Instr("store", 0, <<>>, <<"upper">>)
        /\ blocks'[Top.condbb].instrs[1].keys[2] = "upper"
        /\ \A lower, upper \in IntValues(Top.keybits) :
             LET r == RunForeach(blocks', Top, lower, upper, 0)
             IN r.ended /\ r.trace = <<>>
    ]_vars

\* C26: a forward foreach over the range lower .. upper, lowered with a body
\* that has no break, runs the body upper - lower times when lower < upper,
\* the key being lower, lower + 1, ..., upper - 1 in turn, and never when
\* lower >= upper, the bounds being compared as unsigned numbers when the
\* type of the key is unsigned and as signed numbers otherwise; the
\* comparison emitted is the unsigned one in the first case and the signed
\* one in the second. A continue in the body branches to the block of the
\* increment, and a body with continues runs for the same keys.
C26_ForwardRange ==
  [][ /\ (ForeachRangeEnd /\ Top.op = "TOKforeach") =>
           /\ blocks'[Top.condbb].instrs[1].keys[1]
                = (IF Top.unsigned THEN "ult" ELSE "slt")
           /\ NoBreak(blocks', Top) =>
                \A lower, upper \in IntValues(Top.keybits) :
                  LET lo == KeyValue(lower, Top.keybits, Top.unsigned)
                      up == KeyValue(upper, Top.keybits, Top.unsigned)
                      r == RunForeach(blocks', Top, lower, upper, 0)
                  IN /\ r.ended
                     /\ r.trace = IF lo < up
                                  THEN Ascending(lower, up - lo, Top.keybits)
                                  ELSE <<>>
      /\ (/\ LoopFrames # {}
          /\ frames[Innermost(LoopFrames)].kind = "foreachrange.body"
          /\ Continue(FALSE, Ref(0, 0))) =>
           LastInstr(blocks', scopebb) = Br(frames[Innermost(LoopFrames)].nextbb)
    ]_vars

\* a forward foreach over a range with a signed key, an expression
\* statement and a continue in its body, has been lowered: from -1 to 1 it
\* runs for the keys -1, 0
C26_Witness ==
  \E c \in BlockIds(blocks) :
    /\ frames = <<>>
    /\ blocks[c].name = "foreachrange_cond"
    /\ blocks[c].instrs[1].keys[1] = "slt"
    /\ Len(blocks[c + 1].instrs) = 2
    /\ blocks[c + 1].instrs[1].op = "exp"
    /\ LastInstr(blocks, c + 1) = Br(c + 2)
    /\ LastInstr(blocks, c + 2) = Br(c)
    /\ blocks[c + 2].instrs[1].op = "add"
    /\ Len(blocks) = c + 4
    /\ Exec(blocks, c, 1,
            [key |-> Pow2(SizeBits) - 1, flag |-> FALSE, niters |-> 0,
             lower |-> Pow2(SizeBits) - 1, upper |-> 1, w |-> SizeBits],
            <<>>, <<c + 1, 1>>, c + 3, 64).trace
         = <<Pow2(SizeBits) - 1, 0>>

\* C27: a foreach over an array of length n, n a value of the type of the
\* key, lowered with a body that has no break, takes the element of index
\* 0, 1, ..., n - 1 in turn when it is forward and of index n - 1, ..., 0
\* when it is reverse, n elements in all and none for n = 0. A continue in
\* the body branches to the block "foreachnext", and a body with continues
\* runs for the same indices.
C27_ForeachIndices ==
  [][ /\ (ForeachEnd /\ NoBreak(blocks', Top)) =>
           \A n \in IntValues(SizeBits) :
             n < Pow2(Top.keybits) =>
               LET r == RunForeach(blocks', Top, 0, 0, n)
               IN /\ r.ended
                  /\ Len(r.trace) = n
                  /\ r.trace = IF Top.op = "TOKforeach"
                               THEN Ascending(0, n, Top.keybits)
                               ELSE Descending(n - 1, n, Top.keybits)
      /\ (/\ LoopFrames # {}
          /\ frames[Innermost(LoopFrames)].kind = "foreach.body"
          /\ Continue(FALSE, Ref(0, 0))) =>
           /\ LastInstr(blocks', scopebb) = Br(frames[Innermost(LoopFrames)].nextbb)
           /\ blocks[frames[Innermost(LoopFrames)].nextbb].name = "foreachnext"
    ]_vars

\* a reverse foreach with a key as wide as size_t, an expression
\* statement and a continue in its body, has been lowered: over three
\* elements it takes the indices 2, 1, 0
C27_Witness ==
  \E c \in BlockIds(blocks) :
    /\ frames = <<>>
    /\ blocks[c].name = "foreachcond"
    /\ blocks[c].instrs[1].keys = <<"ugt", "zerokey">>
    /\ blocks[c].instrs[2].op = "sub"
    /\ \E p \in BlockIds(blocks) :
         /\ HasInstr(blocks, p, "bitcast")
         /\ LastInstr(blocks, p) = Br(c)
    /\ blocks[c + 1].instrs[1].op = "gep"
    /\ blocks[c + 1].instrs[2].op = "exp"
    /\ LastInstr(blocks, c + 1) = Br(c + 2)
    /\ blocks[c + 2].instrs = <<Br(c)>>
    /\ Len(blocks) = c + 4
    /\ Exec(blocks, c, 1,
            [key |-> 3, flag |-> FALSE, niters |-> 3, lower |-> 0, upper |-> 0,
             w |-> SizeBits],
            <<>>, <<c + 1, 1>>, c + 3, 64).trace = <<2, 1, 0>>

\* ------------------------------------ statements without a lowering, import
\* C23: an OnScopeStatement, a PragmaStatement and a statement of a kind
\* without a visit function of its own each report an error and abort:
\* the step sets the error state and changes nothing of the graph and the
\* stacks, and from the error state on no handler takes a step, so that no
\* further statement is lowered and no open statement is completed.
C23_UnsupportedIsFatal ==
  /\ [][ UnsupportedStatement =>
            /\ fatal'
            /\ UNCHANGED <<blocks, scopebb, cleanupScopes, catchScopes,
                           targetVars, labelVars, frames>>
       ]_vars
  /\ [][~fatal]_vars

\* lowering has aborted inside a while loop inside the try body of a
\* try/finally: the loop and the try/finally are left open
C23_Witness ==
  /\ fatal
  /\ Len(frames) = 2
  /\ frames[1].kind = "tryfinally.body" /\ frames[2].kind = "while.body"
  /\ cleanupScopes # <<>> /\ breakTargets # <<>>
  /\ ~GetTerminator(blocks, scopebb)

\* C24: an import statement is lowered to nothing: the step creates no
\* block, emits no instruction, reports no error and leaves the current
\* block, the cleanup scopes, the catches, the loop targets and the labels
\* as they are.
C24_ImportIsNoOp ==
  [][ ImportStatement =>
        /\ ~fatal'
        /\ UNCHANGED <<blocks, scopebb, cleanupScopes, catchScopes,
                       continueTargets, breakTargets, labelTargets, gotoJumps,
                       frames, retVars, switchVars>>
    ]_vars

\* an import has been met, and no other statement since, in a while loop
\* in the try bodies of a try/catch and a try/finally: the block of the
\* loop body is still empty
C24_Witness ==
  /\ ~fatal
  /\ nstmts = MaxMiscStmts
  /\ Len(frames) = 3
  /\ frames[3].kind = "while.body"
  /\ blocks[scopebb] = [name |-> "whilebody", instrs |-> <<>>]
  /\ cleanupScopes # <<>> /\ catchScopes # <<>>
  /\ breakTargets # <<>> /\ continueTargets # <<>>

\* ------------------------------------------------- the catches of funclets
\* the catches of the try/catch of frame f once the last one is lowered now:
\* the source index and the first block of each, in the order lowered
LoweredCatches(f) ==
  Append(f.handlers,
         [index |-> CatchIterationMSVC(Len(f.catches))[f.it], BB |-> f.catchBB])

\* the last catch of a try/catch is lowered now, with funclets
LastCatchMSVC ==
  TryCatchHandlerEnd /\ useMSVCEH /\ Top.it = Len(Top.catches)

\* the catch pads of the catches hs are the handlers of the catch switch of
\* block d of graph B, in source order, and of no other catch switch
AttachedTo(B, d, hs, catches) ==
  LET si == B[d].instrs[1]
  IN /\ B[d].name = "catch.dispatch"
     /\ si.op = "catchswitch"
     /\ si.n = Len(catches)
     /\ Len(hs) = Len(catches)
     /\ \A k \in 1..Len(hs) :
          /\ hs[k].index = k
          /\ si.succ[k] = hs[k].BB
          /\ si.keys[k] = catches[k]
          /\ B[hs[k].BB].name = "catch"
          /\ B[hs[k].BB].instrs[1] = Instr("catchpad", catches[k], <<>>, <<>>)
          /\ \A o \in BlockIds(B) \ {d} :
               (B[o].instrs # <<>> /\ B[o].instrs[1].op = "catchswitch") =>
                 \A j \in 1..B[o].instrs[1].n :
                   B[o].instrs[1].succ[j] # hs[k].BB

\* where the catch return of the catch pad of block bb goes
CatchRetTarget(B, bb) == B[bb].instrs[2].succ[1]

C31_DoLoopShape ==
  [][ /\ DoStatement =>
           LET f == frames'[Len(frames')]
           IN /\ blocks'[scopebb].instrs
                   = Append(blocks[scopebb].instrs, Br(f.dowhilebb))
              /\ blocks'[f.dowhilebb] = [name |-> "dowhile", instrs |-> <<>>]
              /\ blocks'[f.condbb] = [name |-> "dowhilecond", instrs |-> <<>>]
              /\ blocks'[f.endbb] = [name |-> "enddowhile", instrs |-> <<>>]
              /\ scopebb' = f.dowhilebb
      /\ DoEnd =>
           /\ LastInstr(blocks', scopebb) = Br(Top.condbb)
           /\ blocks'[Top.condbb].instrs
                = <<Instr("exp", 0, <<>>, <<>>),
                    Instr("condbr", 0, <<Top.dowhilebb, Top.endbb>>, <<>>)>>
           /\ Predecessors(blocks', Top.dowhilebb) = {Top.prebb, Top.condbb}
           /\ Predecessors(blocks, Top.condbb) \cap {Top.prebb} = {}
           /\ blocks'[Top.prebb] = blocks[Top.prebb]
           /\ scopebb' = Top.endbb
      /\ (/\ LoopFrames # {}
          /\ frames[Innermost(LoopFrames)].kind = "do.body"
          /\ Continue(FALSE, Ref(0, 0))) =>
           LastInstr(blocks', scopebb)
             = Br(frames[Innermost(LoopFrames)].condbb)
      /\ (/\ BreakableFrames # {}
          /\ frames[Innermost(BreakableFrames)].kind = "do.body"
          /\ Break(FALSE, Ref(0, 0))) =>
           LastInstr(blocks', scopebb)
             = Br(frames[Innermost(BreakableFrames)].endbb)
    ]_vars

\* a do-while loop whose body is a continue followed by a break has been
\* lowered: the entry leads to the body, the continue to the condition
\* block, the condition block to the body and to the end block, and the
\* break to the end block
C31_Witness ==
  \E b \in BlockIds(blocks) :
    /\ frames = <<>>
    /\ Len(blocks) >= b + 3
    /\ blocks[b].name = "dowhile"
    /\ LastInstr(blocks, b - 1) = Br(b)
    /\ blocks[b].instrs = <<Br(b + 1)>>
    /\ LastInstr(blocks, b + 1).succ = <<b, b + 2>>
    /\ scopebb = b + 2
    /\ blocks[b + 3].name = "afterbreak"
    /\ blocks[b + 3].instrs = <<Br(b + 2)>>

\* ------------------------------------------------------------- the for loop
\* the blocks the last instruction of block bb can hand control to: a
\* conditional branch on the constant true hands it to its first successor
Taken(B, bb) ==
  LET last == LastInstr(B, bb)
  IN IF last.op = "condbr" /\ last.keys = <<"true">>
     THEN {last.succ[1]}
     ELSE {last.succ[k] : k \in 1..Len(last.succ)}

ExpInstr(present) ==
  IF present THEN <<Instr("exp", 0, <<>>, <<>>)>> ELSE <<>>

\* C30: a for loop evaluates its init, when it has one, in the block the
\* loop is met in, followed by the branch to the condition block: once,
\* outside the loop. The condition block tests the condition and hands
\* control to the body or to the end block; without a condition it tests
\* the constant true and hands control to the body alone. The end of the
\* body, when control can reach it, and every continue of the loop branch
\* to the increment block, which holds the increment, when there is one,
\* and the branch back to the condition block, so that the increment runs
\* once before the condition is tested again; nothing but the entry and the
\* increment block leads to the condition block. A break of the loop
\* branches to the end block, where the lowering goes on.
C30_ForLoopShape ==
  [][ /\ \A init, condition, increment \in BOOLEAN :
           ForParts(init, condition, increment, 0) =>
             LET f == frames'[Len(frames')]
             IN /\ blocks'[scopebb].instrs
                     = blocks[scopebb].instrs \o ExpInstr(init)
                         \o <<Br(f.forbb)>>
                /\ blocks'[f.forbb].instrs
                     = ExpInstr(condition)
                         \o <<Instr("condbr", 0, <<f.forbodybb, f.endbb>>,
                                    <<IF condition THEN "cond" ELSE "true">>)>>
                /\ Taken(blocks', f.forbb)
                     = IF condition THEN {f.forbodybb, f.endbb}
                       ELSE {f.forbodybb}
                /\ blocks'[f.forbodybb].instrs = <<>>
                /\ blocks'[f.forincbb].instrs = <<>>
                /\ blocks'[f.endbb].instrs = <<>>
                /\ scopebb' = f.forbodybb
      /\ ForEnd =>
           /\ ~scopereturned(blocks, scopebb) =>
                LastInstr(blocks', scopebb) = Br(Top.forincbb)
           /\ blocks'[Top.forincbb].instrs
                = ExpInstr(Top.increment) \o <<Br(Top.forbb)>>
           /\ blocks'[Top.forbb] = blocks[Top.forbb]
           /\ Predecessors(blocks', Top.forbb) = {Top.prebb, Top.forincbb}
           /\ blocks'[Top.prebb] = blocks[Top.prebb]
           /\ ~Top.condition => Top.endbb \notin Taken(blocks', Top.forbb)
           /\ scopebb' = Top.endbb
      /\ (/\ LoopFrames # {}
          /\ frames[Innermost(LoopFrames)].kind = "for.body"
          /\ Continue(FALSE, Ref(0, 0))) =>
           LastInstr(blocks', scopebb)
             = Br(frames[Innermost(LoopFrames)].forincbb)
      /\ (/\ BreakableFrames # {}
          /\ frames[Innermost(BreakableFrames)].kind = "for.body"
          /\ Break(FALSE, Ref(0, 0))) =>
           LastInstr(blocks', scopebb)
             = Br(frames[Innermost(BreakableFrames)].endbb)
    ]_vars

\* a for loop without condition, with an increment, whose body is a continue
\* followed by a break, has been lowered: the condition block leads to the
\* body alone, the continue to the increment block, the increment block
\* back to the condition, and the break to the end block
C30_Witness ==
  \E c \in BlockIds(blocks) :
    /\ frames = <<>>
    /\ Len(blocks) >= c + 3
    /\ blocks[c].name = "forcond"
    /\ Taken(blocks, c) = {c + 1}
    /\ LastInstr(blocks, c + 1) = Br(c + 2)
    /\ blocks[c + 2].instrs = <<Instr("exp", 0, <<>>, <<>>), Br(c)>>
    /\ scopebb = c + 3
    /\ \E b \in Predecessors(blocks, c + 3) :
         blocks[b].name = "afterbreak"

\* ------------------------------------------------------------------ goto case
\* the switch a goto case lowered now belongs to, and its cases
GotoSwitch == frames[Innermost(SwitchFrames)].sw

\* block b is a placeholder made by a goto case
IsPlaceholder(B, b) == b \in BlockIds(B) /\ B[b].name = "goto_case"

\* C28: a goto case to a case that has no block yet makes a new block
\* "goto_case", records it as the block of the case and branches to it; a
\* goto case to a case that has a block, the placeholder of an earlier goto
\* or the body of a case already lowered, branches to that block and makes
\* no placeholder. When a case that has a placeholder is lowered, the
\* placeholder gets one instruction, a branch to the new body block of the
\* case. When the switch is dispatched every case value leads to the body
\* block of its case, and every placeholder holds nothing but the branch to
\* one of these body blocks: the goto and the dispatch reach the same body.
C28_GotoCasePlaceholder ==
  [][ /\ \A k \in 1..MaxTwiceCases :
           (/\ SwitchFrames # {}
            /\ k <= Len(switches[GotoSwitch].cases)
            /\ GotoCase(k)) =>
             LET cs == switches[GotoSwitch].cases[k]
                 target == switches'[GotoSwitch].cases[k].bodyBB
             IN /\ LastInstr(blocks', scopebb) = Br(target)
                /\ IF cs.bodyBB = 0
                   THEN /\ target = Len(blocks) + 1
                        /\ blocks'[target]
                             = [name |-> "goto_case", instrs |-> <<>>]
                   ELSE /\ target = cs.bodyBB
                        /\ \A b \in BlockIds(blocks') \ BlockIds(blocks) :
                             blocks'[b].name # "goto_case"
      /\ CaseStatement =>
           LET k == Top.nextCase
               old == switches[Top.sw].cases[k].bodyBB
               body == switches'[Top.sw].cases[k].bodyBB
           IN /\ blocks'[body].name = "case"
              /\ body \notin BlockIds(blocks)
              /\ old # 0 =>
                   /\ IsPlaceholder(blocks, old)
                   /\ blocks[old].instrs = <<>>
                   /\ blocks'[old].instrs = <<Br(body)>>
      /\ SwitchEnd =>
           LET cases == switches[Top.sw].cases
               bodies == {cases[k].bodyBB : k \in 1..Len(cases)}
           IN /\ \A k \in 1..Len(cases) :
                   /\ blocks'[cases[k].bodyBB].name = "case"
                   /\ Route(blocks', Top.oldbb, cases[k].exp.value,
                            SwitchBodies(Top)) = cases[k].bodyBB
              /\ \A b \in BlockIds(blocks') :
                   IsPlaceholder(blocks', b) =>
                     \E c \in bodies : blocks'[b].instrs = <<Br(c)>>
    ]_vars

\* a switch has been dispatched whose first case holds a goto case to the
\* second, met before the second case was lowered, and whose second case
\* holds a goto case back to the first: the first goto goes through a
\* placeholder to the block the value 2 is dispatched to, the second goes
\* straight to the block the value 1 is dispatched to
C28_Witness ==
  \E d, g1, g2, p \in BlockIds(blocks) :
    LET stops == {b \in BlockIds(blocks) : blocks[b].name = "case"}
    IN /\ frames = <<>>
       /\ LastInstr(blocks, d).op = "switch"
       /\ blocks[p].name = "goto_case"
       /\ blocks[g1].name = "case"
       /\ blocks[g2].name = "case"
       /\ Route(blocks, d, 1, stops) = g1
       /\ Route(blocks, d, 2, stops) = g2
       /\ LastInstr(blocks, g1) = Br(p)
       /\ blocks[p].instrs = <<Br(g2)>>
       /\ LastInstr(blocks, g2) = Br(g1)

\* ------------------------------------------------ the jump target stacks
BreakableKinds == LoopKinds \cup {"switch.body"}

IsLoopFrame(f) == f.kind \in LoopKinds

IsBreakableFrame(f) == f.kind \in BreakableKinds

\* the stack of targets mirrors the open frames fs: one entry for each of
\* them, outermost first, with its statement and the block block(_) gives
Mirrors(targets, fs, block(_)) ==
  /\ Len(targets) = Len(fs)
  /\ \A i \in 1..Len(fs) :
       /\ targets[i].targetStatement = fs[i].stmt
       /\ targets[i].targetBlock = block(fs[i])

EndBlock(f) == f.endbb

\* s is the first part of t
Prefix(s, t) == Len(s) <= Len(t) /\ SubSeq(t, 1, Len(s)) = s

\* the entries of the stack under the top one are left alone, and the top
\* one too unless the step goes from a child of an unrolled loop to the next
KeepsEntries(targets, targetsNext) ==
  \/ Prefix(targets, targetsNext)
  \/ Prefix(targetsNext, targets)
  \/ /\ UnrolledNext
     /\ Len(targetsNext) = Len(targets)
     /\ Prefix(SubSeq(targets, 1, Len(targets) - 1), targetsNext)

\* C21: at every point of the lowering the stack of break targets holds one
\* entry for each loop and switch whose body is being lowered, outermost
\* first, and the stack of continue targets one for each such loop, so that
\* their depths are the numbers of enclosing loops and switches and of
\* enclosing loops; no step touches an entry under the top of a stack; the
\* step that ends a while, do-while, for, foreach, foreach-range, unrolled
\* loop or switch removes the top entry and nothing else, which leaves the
\* stacks as they were when the statement was met: a break or continue
\* lowered afterwards finds no entry of the statement.
C21_TargetStackBalanced ==
  /\ [](/\ Mirrors(breakTargets, SelectSeq(frames, IsBreakableFrame), EndBlock)
        /\ Mirrors(continueTargets, SelectSeq(frames, IsLoopFrame),
                   ContinueBlock))
  /\ [][ /\ KeepsEntries(breakTargets, breakTargets')
         /\ KeepsEntries(continueTargets, continueTargets')
         /\ (WhileEnd \/ DoEnd \/ ForEnd \/ ForeachEnd \/ ForeachRangeEnd
               \/ UnrolledEnd \/ SwitchEnd) =>
              /\ breakTargets'
                   = SubSeq(breakTargets, 1, Len(breakTargets) - 1)
              /\ continueTargets'
                   = IF Top.kind = "switch.body" THEN continueTargets
                     ELSE SubSeq(continueTargets, 1, Len(continueTargets) - 1)
              /\ \A i \in 1..Len(breakTargets') :
                   breakTargets'[i].targetStatement # Top.stmt
              /\ \A i \in 1..Len(continueTargets') :
                   continueTargets'[i].targetStatement # Top.stmt
     ]_vars

\* a foreach over a range lowered in a case of a switch has ended: the
\* switch is the one target left, and no continue target is
C21_Witness ==
  /\ frames # <<>>
  /\ frames[1].kind = "switch.body"
  /\ Len(breakTargets) = 1
  /\ breakTargets[1].targetStatement = frames[1].stmt
  /\ continueTargets = <<>>
  /\ \E b \in BlockIds(blocks) :
       /\ blocks[b].name = "foreachrange_end"
       /\ scopebb = b

\* ------------------------------------------------------- the cleanup stack
IsTryFinallyBody(f) == f.kind = "tryfinally.body"

\* the finally blocks run on the way of the jump just lowered
FinallyRun == ExitPath(blocks', scopebb).run

TryFinallyAbsent ==
  \E body, finalbody \in BOOLEAN :
    (~body \/ ~finalbody) /\ TryFinally(body, finalbody)

\* C36: a try/finally statement with the try body or the finally body absent
\* creates no block and pushes no cleanup: what is present is lowered into
\* the block that was current, and when it has been lowered the statement
\* ends without touching the graph or the cleanup stack, which holds one
\* cleanup per open try/finally statement with both parts and so the same
\* cleanups as when the statement was met.
C36_AbsentPartInline ==
  /\ [](Len(cleanupScopes) = Cardinality(FinallyFrames))
  /\ [][ TryFinallyAbsent =>
           /\ UNCHANGED <<blocks, scopebb, cleanupScopes, catchScopes>>
           /\ Len(frames') <= Len(frames) + 1
           /\ Len(frames') = Len(frames) + 1 =>
                frames'[Len(frames')].kind = "tryfinally.inline"
       ]_vars
  /\ [][ TryFinallyInlineEnd =>
           /\ UNCHANGED <<blocks, scopebb, cleanupScopes, catchScopes>>
           /\ Len(cleanupScopes') = Cardinality(FinallyFrames \ {Len(frames)})
       ]_vars

\* the present part of a try/finally statement with a part absent is being
\* lowered and holds a try/finally statement with both parts: of the two
\* statements only the inner one has a finally block and a cleanup
C36_Witness ==
  /\ Len(frames) = 2
  /\ frames[1].kind = "tryfinally.inline"
  /\ frames[2].kind = "tryfinally.body"
  /\ nstmts = 2
  /\ Cardinality({b \in BlockIds(blocks) : blocks[b].name = "finally"}) = 1
  /\ Len(cleanupScopes) = 1

\* ------------------------------------------------- the executable's path
Getter == getExePath \/ getBinDir \/ getBaseDir \/ PrependBinDir
GetterNames == {"getExePath", "getBinDir", "getBaseDir", "prependBinDir"}

\* C37: in any sequence of calls of exe_path, initialize stores a path only
\* while the stored path is empty and trips its assertion when a path is
\* stored already; a getter called while the stored path is empty trips an
\* assertion; a getter never changes the stored path, which once set stays
\* what it is; and a getter that returned did so with a path stored.
C37_InitializeOnce ==
  /\ [][ Initialize =>
           IF exePath = <<>>
           THEN ~exeFailed' /\ exePath' \in Paths
           ELSE exeFailed' /\ exePath' = exePath
       ]_vars
  /\ [][ Getter =>
           /\ exePath' = exePath
           /\ exePath = <<>> => exeFailed' /\ exeResult' = exeResult
       ]_vars
  /\ [][ exePath # <<>> => exePath' = exePath ]_vars
  /\ []((exeCall \in GetterNames /\ ~exeFailed) => exePath # <<>>)
  /\ []((exeFailed /\ exeCall \in GetterNames \ {"getBaseDir"})
          => exePath = <<>>)

\* initialize was called with a path stored, after a getter had returned
\* the directory of the executable: the assertion failed, the path is kept
C37_Witness ==
  /\ exeFailed
  /\ exeCall = "initialize"
  /\ exePath = <<1, 2>>
  /\ exeResult = <<1>>

\* ------------------------------------------------- a switch inside a loop
\* the innermost open loop or switch is a switch, inside a loop
SwitchInLoop ==
  /\ LoopFrames # {}
  /\ BreakableFrames # {}
  /\ frames[Innermost(BreakableFrames)].kind = "switch.body"

\* C34: the handler of a switch pushes a break target, its end block, and
\* leaves the continue targets alone. In a switch inside a loop a break
\* without label branches to the end block of the switch, and a continue
\* without label to the continue block of the innermost enclosing loop,
\* which is not a block of the switch.
C34_SwitchInLoop ==
  [][ /\ SwitchEntered =>
           LET f == frames'[Len(frames')]
           IN /\ continueTargets' = continueTargets
              /\ breakTargets'
                   = Append(breakTargets,
                            JumpTarget(f.stmt, f.endbb, cleanupScopes))
      /\ (SwitchInLoop /\ Break(FALSE, Ref(0, 0))) =>
           LastInstr(blocks', scopebb)
             = Br(frames[Innermost(BreakableFrames)].endbb)
      /\ (SwitchInLoop /\ Continue(FALSE, Ref(0, 0))) =>
           LET loop == frames[Innermost(LoopFrames)]
               switch == frames[Innermost(BreakableFrames)]
           IN /\ LastInstr(blocks', scopebb) = Br(ContinueBlock(loop))
              /\ ContinueBlock(loop) < switch.oldbb
              /\ ContinueBlock(loop) # switch.endbb
    ]_vars

\* a while loop whose body is a switch with a continue and then a break in
\* its case has been lowered: the continue branches to the condition block
\* of the loop, the break to the end block of the switch
C34_Witness ==
  \E w, e, c \in BlockIds(blocks) :
    /\ frames = <<>>
    /\ Len(blocks) >= c + 1
    /\ blocks[w].name = "whilecond"
    /\ blocks[e].name = "switchend"
    /\ blocks[c].name = "case"
    /\ blocks[c].instrs = <<Br(w)>>
    /\ blocks[c + 1].instrs = <<Br(e)>>
    /\ LastInstr(blocks, w + 1).op = "switch"

\* ------------------------------------------------------------------ throw
\* C22: a throw statement appends to the current block the thrown
\* expression, the call of the raise operation (a call or an invoke) and
\* unreachable, the block's only terminator, and goes on in a new, empty
\* block "afterthrow" that no block branches to. No block ever gets an edge
\* to an "afterthrow" block, and nothing is appended behind unreachable: what
\* is lowered after a throw cannot be reached from it.
C22_ThrowNeverFallsThrough ==
  /\ [](\A bb \in BlockIds(blocks) :
          /\ blocks[bb].name = "afterthrow" => Predecessors(blocks, bb) = {}
          /\ HasInstr(blocks, bb, "unreachable") =>
               /\ LastInstr(blocks, bb).op = "unreachable"
               /\ NumTerminators(blocks, bb) = 1
               /\ ThrowCall(blocks, bb).op \in {"call", "invoke"})
  /\ [][ ThrowStatement =>
            /\ Len(blocks'[scopebb].instrs) = Len(blocks[scopebb].instrs) + 3
            /\ LastInstr(blocks', scopebb) = Instr("unreachable", 0, <<>>, <<>>)
            /\ ThrowCall(blocks', scopebb).op \in {"call", "invoke"}
            /\ Len(blocks') = Len(blocks) + 1
            /\ scopebb' = Len(blocks')
            /\ blocks'[scopebb'] = [name |-> "afterthrow", instrs |-> <<>>]
            /\ Predecessors(blocks', scopebb') = {}
       ]_vars

\* a throw in a try body, lowered to an invoke, is followed by a second
\* throw: that one lies in the "afterthrow" block of the first
C22_Witness ==
  \E bb, cc \in BlockIds(blocks) :
    /\ bb < cc
    /\ blocks[cc].name = "afterthrow"
    /\ LastInstr(blocks, bb).op = "unreachable"
    /\ ThrowCall(blocks, bb).op = "invoke"
    /\ LastInstr(blocks, cc).op = "unreachable"
    /\ Len(blocks[cc].instrs) = 3
    /\ Predecessors(blocks, cc) = {}

\* ------------------------------------------------------- terminated blocks
\* no instruction of block bb follows a terminator
WellTerminated(B, bb) ==
  \A k \in 1..(Len(B[bb].instrs) - 1) : B[bb].instrs[k].op \notin Terminators

\* the statements that end the current block
TerminatorStatement ==
  \/ ReturnStatement
  \/ BreakStatement
  \/ ContinueStatement
  \/ ThrowStatement
  \/ GotoStatement
  \/ GotoCaseStatement
  \/ GotoDefaultStatement

C4_GotoCaseRunsFinally ==
  [][ /\ GotoDefaultStatement =>
           JumpsTo(Innermost(SwitchFrames),
                   switches[frames[Innermost(SwitchFrames)].sw].sdefault.bodyBB)
      /\ \A k \in 1..MaxCases :
           (/\ SwitchFrames # {}
            /\ k <= Len(switches[frames[Innermost(SwitchFrames)].sw].cases)
            /\ GotoCase(k)) =>
             JumpsTo(Innermost(SwitchFrames),
                     switches'[frames[Innermost(SwitchFrames)].sw].cases[k].bodyBB)
    ]_vars

====
